---- MODULE Spec2Model ----
(***************************************************************************)
(* nginx-logparser: rotation-aware tailing of a remote access log          *)
(* (logsreader.ReadLogs / processRecords), driven by main.processLogs,     *)
(* and the in-memory aggregation of the parsed records                     *)
(* (consumptions.UsagesCollection.AddRecord).                              *)
(*                                                                         *)
(* A log file is a sequence of bytes.  The remote directory is a set of    *)
(* files, each with a name, a modification time in whole seconds and its   *)
(* bytes.  Names are sequences of tokens ("access.log", a rotation suffix, *)
(* ".gz"), compared token by token as the strings are compared character   *)
(* by character.                                                           *)
(***************************************************************************)
EXTENDS Integers, Sequences, FiniteSets, TLC

\* ------------------------------------------------------------------ bounds
MaxEvents == 5        \* writes to and rotations of the active log, and runs

\* ------------------------------------------------------- program constants
ThrottleCap == 200    \* make(chan bool, 200) in processRecords

\* ------------------------------------------------------------ log contents
LF == "\n"
\* What the host appends with one write: a well-formed line, a line that
\* does not parse, a line on which parseLine panics (nine quoted fields, the
\* first without "("), the first half of a well-formed line (a write still
\* in progress) and its second half.
GoodLine == <<"g", "g">>
PanicLine == <<"p">>
CompleteChunks == {GoodLine \o <<LF>>, <<"x", LF>>, PanicLine \o <<LF>>}
HalfChunk == <<"g">>
RestChunk == <<"g", LF>>

\* --------------------------------------------------------------- file names
logName == <<"access.log">>
GZ == ".gz"
RotSuffixes == {"-d1", "-d2"}

TokenRank(t) ==
  CASE t = "-d1" -> 1
    [] t = "-d2" -> 2
    [] t = GZ -> 3
    [] t = "access.log" -> 4
    [] OTHER -> 0

\* the order in which Walk visits the entries of a directory: by name
RECURSIVE NameLess(_, _)
NameLess(a, b) ==
  IF a = <<>> THEN b # <<>>
  ELSE IF b = <<>> THEN FALSE
  ELSE IF Head(a) # Head(b) THEN TokenRank(Head(a)) < TokenRank(Head(b))
  ELSE NameLess(Tail(a), Tail(b))

HasPrefix(s, p) == Len(p) <= Len(s) /\ SubSeq(s, 1, Len(p)) = p
HasSuffix(s, t) == Len(s) >= 1 /\ s[Len(s)] = t

FileIds == 0..MaxEvents
NoFile == [name |-> <<>>, mtime |-> 0, data |-> <<>>]

\* FileInfo{} and State{}
ZeroFileInfo == [Name |-> <<>>, ModifiedDate |-> 0]
ZeroState == [RotatedLog |-> ZeroFileInfo, BytesRead |-> 0]

VARIABLES
  now,               \* the host's clock, in seconds
  files,             \* the log directory: file id -> name, mtime, data
  nextId,            \* the id of the next file the host creates
  writes,            \* writes to the active log so far
  stateFile,         \* the persisted marker of the host
  pc,                \* where processLogs / ReadLogs stands
  readerState,       \* ReadLogs' parameter: the marker the run started from
  previouslyRotated, \* ReadLogs' local
  logOffset,         \* ReadLogs' local
  newState,          \* ReadLogs' result
  runs,              \* runs started so far
  batches,           \* history: the processRecords calls of the current run
  fault,             \* history: the transport failure met by the current run
  covered,           \* history: file id -> the offsets of the lines scanned so far
  twice,             \* history: a line was scanned that had been scanned before
  skipped,           \* history: a file was archived with lines never scanned
  rotSinceRun,       \* history: rotations since the last run returned
  premises,          \* history: no event yet of those the resumption contract excludes
  listed,            \* history: the file the current run's walk found, and when
  prev,              \* history: the active file read by the run before, and when
  race,              \* history: a rotation inside a run, and the runs since
  \* one call of processRecords, goroutine by goroutine
  shape,             \* the file: good lines, then bad lines, then good lines
  recPc,             \* the scan loop: "scan", "wait" (wg.Wait) or "returned"
  scanned,           \* lines the scanner has yielded
  throttle,          \* values in the throttle channel
  wg,                \* the WaitGroup's counter
  parsing,           \* goroutines started that have not parsed yet, by kind of line
  releasing,         \* goroutines back from recordProcessor, before "<-throttle"
  bytesRead,         \* processRecords' local
  processed,         \* calls of recordProcessor so far
  \* a UsagesCollection and the goroutines that call AddRecord on it
  usages,            \* the map usages: usageKey -> pointer (0: no entry)
  heap,              \* the ConsumptionRecords allocated, by pointer
  unknownDomains,    \* the map unknownDomains: domain -> count
  worker,            \* per goroutine: where its AddRecord stands, and its locals
  added,             \* history: record -> AddRecord calls made for it
  old,               \* history: the keys in the map when no call was running
  sound,             \* history: the totals were right when no call was running
  \* SaveConsumptions, the planning of the batches
  consumptions,      \* the parameter: website id -> the hours of its records
  todo,              \* the websites "range consumptions" has not reached yet
  cur,               \* the website whose records are being planned (0: none)
  idx,               \* records of that website planned so far
  planned,           \* the map batches: <<table, website id>> -> batches of entities
  createdTables,     \* the package variable createdTables
  planPc,            \* "plan", or "planned" when the loop is over
  serverName,        \* the parameter serverName
  saveNow,           \* now.Unix() of "now := time.Now()"
  \* SaveConsumptions, the submission of the batches
  toSubmit,          \* <<table, website id>> -> the number of batches planned
  savePc,            \* SaveConsumptions: "idle", "spawn" or "returned"
  saveErr,           \* what SaveConsumptions returned: "none" yet, or "nil"
  tablesLeft,        \* tables "range batches" has not reached yet
  tablesWg,          \* tablesWg
  tablePc,           \* per table: "idle", "loop" or "done" (processTableBatches)
  websitesLeft,      \* per table: websites "range tableBatches" has not reached
  tableThrottle,     \* per table: length of the channel throttle
  websitesWg,        \* per table: websitesWg
  websitePc,         \* per pair: "idle", "loop" or "done" (processWebsiteBatches)
  batchesLeft,       \* per pair: batches "range websiteBatches" has not reached
  websiteThrottle,   \* per pair: length of the channel throttle
  batchWg,           \* per pair: wg
  inserting,         \* per pair: goroutines inside client.BatchInsert
  logging,           \* per pair: goroutines past BatchInsert, before "<-throttle"
  submitted,         \* history, per pair: BatchInsert calls made
  failed,            \* history, per pair: BatchInsert calls that returned an error
  \* processLogs, step by step
  logLen,            \* lines the host has written to its access log
  markerFile,        \* the state file: lines a run need not read again, or NoStateFile
  procPc,            \* "idle", "read", "save", "upload" or "done"
  loaded,            \* prevState, as GetState returned it
  fresh,             \* newState, as ReadLogs returned it
  consumed,          \* the lines ReadLogs gave to usages.AddRecord in this run
  stored,            \* the lines whose aggregate a BatchInsert has stored
  result,            \* what processLogs returns: "none" yet, "nil" or "error"
  readOk,            \* history: ReadLogs returned no error in this run
  persisted,         \* history: the state file was written in this run
  batchFailed,       \* history: a BatchInsert of this run failed
  \* the table client, one request
  answer,            \* what httpClient.Do gives: a transport error or a response
  called,            \* "none" yet, "InsertEntity" or "BatchInsert"
  returnedErr,       \* the error the call returned (NoError: nil)
  \* parseLine and the record's way into the collection
  made,              \* how the line was written: the variant of each field
  parseOut,          \* what parseLine returned, or that it panicked
  aggregated,        \* what AddRecord made of the record in an empty collection
  \* main and its goroutines, one per configured server
  servers,           \* settings.Servers: host -> ConnectionInfo
  hostPc,            \* per host, the place in processLogs; for 0, the place in main
  hostsWg,           \* wg of main
  hostLoaded,        \* per host: the value of createdTables it has loaded
  stateFiles,        \* state file name -> the host whose marker it holds (0: no file)
  touched,           \* history: shared object -> the hosts that read and wrote it
  \* the signing of requests
  signReq,           \* two requests: verb, headers, url path
  signOut            \* per request, what each signing of it made

fsVars == <<now, files, nextId, writes>>
runVars == <<stateFile, pc, readerState, previouslyRotated, logOffset, newState, runs>>
histVars == <<batches, fault, covered, twice, skipped, rotSinceRun, premises, listed, prev, race>>
recVars == <<shape, recPc, scanned, throttle, wg, parsing, releasing, bytesRead, processed>>
addVars == <<usages, heap, unknownDomains, worker, added, old, sound>>
planVars == <<consumptions, todo, cur, idx, planned, createdTables, planPc, serverName, saveNow>>
submitVars ==
  <<toSubmit, savePc, saveErr, tablesLeft, tablesWg, tablePc, websitesLeft,
    tableThrottle, websitesWg, websitePc, batchesLeft, websiteThrottle, batchWg,
    inserting, logging, submitted, failed>>
procVars ==
  <<logLen, markerFile, procPc, loaded, fresh, consumed, stored, result, readOk,
    persisted, batchFailed>>
httpVars == <<answer, called, returnedErr>>
parseVars == <<made, parseOut, aggregated>>
hostVars == <<servers, hostPc, hostsWg, hostLoaded, stateFiles, touched>>
signVars == <<signReq, signOut>>
vars ==
  <<fsVars, runVars, histVars, recVars, addVars, planVars, submitVars, procVars, httpVars,
    parseVars, hostVars, signVars>>

\* what a step of a run, and a step of the one call, leave alone
besideRun == <<recVars, addVars, planVars, submitVars, procVars, httpVars, parseVars, hostVars, signVars>>
besideRecords == <<fsVars, runVars, histVars, addVars, planVars, submitVars, procVars, httpVars, parseVars, hostVars, signVars>>
besideAdd == <<fsVars, runVars, histVars, recVars, planVars, submitVars, procVars, httpVars, parseVars, hostVars, signVars>>
besidePlan == <<fsVars, runVars, histVars, recVars, addVars, submitVars, procVars, httpVars, parseVars, hostVars, signVars>>
besideSubmit == <<fsVars, runVars, histVars, recVars, addVars, planVars, procVars, httpVars, parseVars, hostVars, signVars>>
besideProc == <<fsVars, runVars, histVars, recVars, addVars, planVars, submitVars, httpVars, parseVars, hostVars, signVars>>
besideHttp == <<fsVars, runVars, histVars, recVars, addVars, planVars, submitVars, procVars, parseVars, hostVars, signVars>>
besideParse ==
  <<fsVars, runVars, histVars, recVars, addVars, planVars, submitVars, procVars, httpVars,
    hostVars, signVars>>
\* createdTables is a variable of the package: the hosts' goroutines share it
besideHosts ==
  <<fsVars, runVars, histVars, recVars, addVars, submitVars, procVars, httpVars, parseVars,
    signVars, consumptions, todo, cur, idx, planned, planPc, serverName, saveNow>>
besideSign ==
  <<fsVars, runVars, histVars, recVars, addVars, planVars, submitVars, procVars, httpVars,
    parseVars, hostVars>>

Present == {id \in FileIds : files[id].name # <<>>}
ActiveId == CHOOSE id \in Present : files[id].name = logName
WithName(n) == {id \in Present : files[id].name = n}

\* ------------------------------------------------------------ the scanner
\* bufio.Scanner with ScanLines over the bytes from offset pos: the text
\* between separators; a last fragment without separator is a line too.
FirstLF(s) ==
  IF \E i \in 1..Len(s) : s[i] = LF
  THEN CHOOSE i \in 1..Len(s) : s[i] = LF /\ \A j \in 1..(i - 1) : s[j] # LF
  ELSE 0

RECURSIVE scanLines(_, _)
scanLines(data, pos) ==
  IF pos >= Len(data) THEN <<>>
  ELSE LET rest == SubSeq(data, pos + 1, Len(data))
           nl == FirstLF(rest)
           text == IF nl = 0 THEN rest ELSE SubSeq(rest, 1, nl - 1)
           next == IF nl = 0 THEN Len(data) ELSE pos + nl
       IN <<[off |-> pos, text |-> text]>> \o scanLines(data, next)

\* parseLine, by outcome: a record, an error, or the panic of
\* results[0][:strings.Index(results[0], "(")] with index -1
parseLine(text) ==
  IF text = GoodLine THEN "ok"
  ELSE IF text = PanicLine THEN "panic"
  ELSE "err"

RECURSIVE SumBytes(_)
SumBytes(lines) ==
  IF lines = <<>> THEN 0
  ELSE Len(Head(lines).text) + 1 + SumBytes(Tail(lines))

Range(s) == {s[i] : i \in 1..Len(s)}

\* the scan loop blocks on "throttle <- true" once ThrottleCap goroutines
\* have returned on a parse error without receiving from the channel
Blocks(lines) ==
  \E i \in 1..Len(lines) :
    Cardinality({j \in 1..(i - 1) : parseLine(lines[j].text) = "err"}) >= ThrottleCap

Panics(lines) == \E i \in 1..Len(lines) : parseLine(lines[i].text) = "panic"

\* the scan loop of processRecords over the lines the scanner yields, the
\* per-line goroutines run to their end: the lines scanned, the records
\* parsed, the byte count, and how the call ends
scanLoop(lines) ==
  [lines |-> Range(lines),
   parsed |-> {l \in Range(lines) : parseLine(l.text) = "ok"},
   bytesRead |-> SumBytes(lines),
   outcome |-> IF Panics(lines) THEN "panic"
               ELSE IF Blocks(lines) THEN "block"
               ELSE "return"]

\* a processRecords that does not seek
processRecordsNoSeek(data, readFrom) == scanLoop(scanLines(data, 0))

\* processRecords on an opened file: file.Seek(readFrom, 0), then the scan loop
processRecords(data, readFrom) == scanLoop(scanLines(data, readFrom))

Offsets(lines) == {l.off : l \in lines}
LineStarts(data) == Offsets(Range(scanLines(data, 0)))

\* the records a file holds at or after an offset: those of its lines, as
\* the file is cut at its separators, that start there and parse
RecordsFrom(data, offset) ==
  {l \in Range(scanLines(data, 0)) : l.off >= offset /\ parseLine(l.text) = "ok"}

\* ------------------------------------------------ findPreviouslyRotatedFile
Candidates ==
  {id \in Present : /\ files[id].name # logName
                    /\ HasPrefix(files[id].name, logName)
                    /\ ~HasSuffix(files[id].name, GZ)}

findPreviouslyRotatedFile(walkErr) ==
  IF walkErr \/ Candidates = {} THEN ZeroFileInfo
  ELSE LET first == CHOOSE id \in Candidates :
                      \A o \in Candidates \ {id} : NameLess(files[id].name, files[o].name)
       IN [Name |-> files[first].name, ModifiedDate |-> files[first].mtime]

\* the file behind the FileInfo the walk returns (-1: none)
foundId(walkErr) ==
  IF walkErr \/ Candidates = {} THEN -1
  ELSE CHOOSE id \in Candidates :
         \A o \in Candidates \ {id} : NameLess(files[id].name, files[o].name)

\* name and modification time of a file of the directory
Identity(id) ==
  IF id = -1 THEN ZeroFileInfo
  ELSE [Name |-> files[id].name, ModifiedDate |-> files[id].mtime]

NoListing == [id |-> -1, info |-> ZeroFileInfo, stamp |-> 0]
NoRun == [active |-> -1, stamp |-> 0]

\* a comparison by name only
isSameName(f, other) == other.Name = f.Name

isSame(f, other) == other.Name = f.Name /\ other.ModifiedDate = f.ModifiedDate

\* ----------------------------------------------------------------- the host
\* Each event of the host happens in the current second or in the next one.

EndsInLine(data) == IF data = <<>> THEN TRUE ELSE data[Len(data)] = LF

\* The host is left alone where its events commute with the run's next step
\* (between GetState and the directory walk, between the return of ReadLogs
\* and SaveState): there the same event before the run started, or after it
\* ended, gives the same behaviour.
HostMayAct == pc \in {"idle", "rotated", "active"}

\* race: "none"; "raced" once a run that kept to the resumption contract saw
\* the log rotated between its directory walk and its reading of the access
\* log; "saved" when that run has returned and stored its marker; "over" when
\* the run after it has; "spoiled" by any other excluded event on the way.
Kept(ok) == IF race \in {"raced", "saved"} /\ ~ok THEN "spoiled" ELSE race

HostAppend(chunk) ==
  LET a == ActiveId
      d == files[a].data
  IN /\ HostMayAct
     /\ UNCHANGED besideRun
     /\ nextId + writes + runs < MaxEvents + 1
     /\ writes' = writes + 1
     /\ IF EndsInLine(d) THEN chunk \in CompleteChunks \cup {HalfChunk}
                         ELSE chunk = RestChunk
     /\ files' = [files EXCEPT ![a] = [@ EXCEPT !.data = d \o chunk, !.mtime = now]]
     /\ premises' = (premises /\ chunk \in CompleteChunks)
     /\ race' = Kept(chunk \in CompleteChunks)
     /\ UNCHANGED <<now, nextId, runVars, batches, fault, covered, twice, skipped,
                    rotSinceRun, listed, prev>>

\* The host renames the active log to access.log<suffix>, compresses the
\* file rotated before (replacing an older archive of that name) and starts
\* an empty active log.
Rotate(suffix, dt) ==
  LET a == ActiveId
      gzNames == {files[id].name \o <<GZ>> : id \in Candidates}
      step(id) ==
        IF id = a THEN [files[id] EXCEPT !.name = logName \o <<suffix>>]
        ELSE IF id = nextId THEN [name |-> logName, mtime |-> now', data |-> <<>>]
        ELSE IF id \in Candidates
             THEN [files[id] EXCEPT !.name = @ \o <<GZ>>, !.data = <<>>]
        ELSE IF files[id].name \in gzNames THEN NoFile
        ELSE files[id]
  IN /\ HostMayAct
     /\ UNCHANGED besideRun
     /\ nextId + writes + runs < MaxEvents + 1
     /\ EndsInLine(files[a].data)
     /\ now' = now + dt
     /\ files' = [id \in FileIds |-> step(id)]
     /\ nextId' = nextId + 1
     /\ rotSinceRun' = rotSinceRun + 1
     /\ premises' = (premises /\ pc = "idle" /\ rotSinceRun = 0)
     /\ race' = IF race = "none" /\ premises /\ pc # "idle" THEN "raced" ELSE Kept(FALSE)
     /\ covered' = [id \in FileIds |-> IF id \in Candidates THEN {} ELSE covered[id]]
     /\ skipped' = (skipped \/ \E id \in Candidates :
                                  covered[id] # LineStarts(files[id].data))
     /\ UNCHANGED <<writes, runVars, batches, fault, twice, listed, prev>>

\* A host that keeps its rotated files as they are (no compression): the
\* active log is renamed to access.log<suffix>, a name not in use, and an
\* empty active log is started.  The file rotated last is the one created
\* last: file ids grow with the time of creation.
RotateKeep(suffix, dt) ==
  LET a == ActiveId
      step(id) ==
        IF id = a THEN [files[id] EXCEPT !.name = logName \o <<suffix>>]
        ELSE IF id = nextId THEN [name |-> logName, mtime |-> now', data |-> <<>>]
        ELSE files[id]
  IN /\ pc = "idle"
     /\ UNCHANGED besideRun
     /\ nextId + writes + runs < MaxEvents + 1
     /\ EndsInLine(files[a].data)
     /\ WithName(logName \o <<suffix>>) = {}
     /\ now' = now + dt
     /\ files' = [id \in FileIds |-> step(id)]
     /\ nextId' = nextId + 1
     /\ rotSinceRun' = rotSinceRun + 1
     /\ premises' = (premises /\ rotSinceRun = 0)
     /\ race' = Kept(FALSE)
     /\ UNCHANGED <<writes, runVars, batches, fault, covered, twice, skipped, listed, prev>>

\* ------------------------------------------------- processLogs and ReadLogs
\* GetState: the persisted marker, or State{} when the host has no state file
GetState ==
  /\ UNCHANGED besideRun
  /\ pc = "idle"
  /\ nextId + writes + runs < MaxEvents + 1
  /\ runs' = runs + 1
  /\ readerState' = stateFile
  /\ pc' = "connect"
  /\ UNCHANGED <<fsVars, stateFile, previouslyRotated, logOffset, newState, histVars>>

\* connectToServer
Connect(fails) ==
  /\ UNCHANGED besideRun
  /\ pc = "connect"
  /\ pc' = IF fails THEN "error" ELSE "list"
  /\ fault' = IF fails THEN "connect" ELSE fault
  /\ premises' = (premises /\ ~fails)
  /\ race' = Kept(~fails)
  /\ UNCHANGED <<fsVars, stateFile, readerState, previouslyRotated, logOffset, newState,
                 runs, batches, covered, twice, skipped, rotSinceRun, listed, prev>>

\* findPreviouslyRotatedFile and the choice of logOffset
List(walkErr) ==
  /\ UNCHANGED besideRun
  /\ pc = "list"
  /\ previouslyRotated' = findPreviouslyRotatedFile(walkErr)
  /\ IF isSame(previouslyRotated', readerState.RotatedLog)
     THEN logOffset' = readerState.BytesRead /\ pc' = "active"
     ELSE logOffset' = 0 /\ pc' = "rotated"
  /\ fault' = IF walkErr THEN "list" ELSE fault
  /\ listed' = [id |-> foundId(walkErr), info |-> Identity(foundId(walkErr)),
                stamp |-> nextId + writes]
  /\ race' = Kept(~walkErr)
  /\ UNCHANGED <<fsVars, stateFile, readerState, newState, runs, batches, covered, twice,
                 skipped, rotSinceRun, premises, prev>>

\* One call of processRecords(fileName, readFrom) with the outcome it has:
\* it returns, or a goroutine panics (the process dies, whatever the other
\* goroutines had delivered), or the scan loop blocks for ever.
Batch(which, id, readFrom, r, got) ==
  [which |-> which, file |-> id, from |-> readFrom, size |-> Len(files[id].data),
   records |-> RecordsFrom(files[id].data, readFrom), delivered |-> got]

Delivered(r) == IF r.outcome = "return" THEN {r.parsed} ELSE SUBSET r.parsed

AfterCall(r, onReturn) ==
  CASE r.outcome = "return" -> onReturn
    [] r.outcome = "panic" -> "crashed"
    [] OTHER -> "blocked"

Scanned(which, id, readFrom, r, got) ==
  /\ batches' = Append(batches, Batch(which, id, readFrom, r, got))
  /\ covered' = [covered EXCEPT ![id] = @ \cup Offsets(r.lines)]
  /\ twice' = (twice \/ covered[id] \cap Offsets(r.lines) # {})
  /\ UNCHANGED skipped

\* processRecords(sftp, previouslyRotated.Name, readerState.BytesRead, ...)
ReadRotated(failure) ==
  /\ UNCHANGED besideRun
  /\ pc = "rotated"
  /\ LET ids == WithName(previouslyRotated.Name)
     IN IF failure # "none" \/ ids = {}
        THEN /\ pc' = "error"
             /\ fault' = IF failure # "none" THEN failure ELSE fault
             /\ premises' = FALSE
             /\ race' = Kept(FALSE)
             /\ UNCHANGED <<batches, covered, twice, skipped>>
        ELSE LET id == CHOOSE i \in ids : TRUE
                 r == processRecords(files[id].data, readerState.BytesRead)
             IN /\ \E got \in Delivered(r) :
                     Scanned("rotated", id, readerState.BytesRead, r, got)
                /\ pc' = AfterCall(r, "active")
                /\ premises' = (premises /\ r.outcome = "return")
                /\ race' = Kept(r.outcome = "return")
                /\ UNCHANGED fault
  /\ UNCHANGED <<fsVars, stateFile, readerState, previouslyRotated, logOffset, newState,
                 runs, rotSinceRun, listed, prev>>

\* a marker that counts the bytes of this run only
bytesOfRun(read, offset) == read
\* part_004 52-55: BytesRead: bytesRead + logOffset
markerBytes(read, offset) == read + offset

\* processRecords(sftp, logPath, logOffset, ...) and the marker ReadLogs returns
ReadActive(failure) ==
  /\ UNCHANGED besideRun
  /\ pc = "active"
  /\ IF failure # "none"
     THEN /\ pc' = "error"
          /\ fault' = failure
          /\ premises' = FALSE
          /\ race' = Kept(FALSE)
          /\ UNCHANGED <<batches, covered, twice, skipped, newState>>
     ELSE LET id == ActiveId
              r == processRecords(files[id].data, logOffset)
          IN /\ \E got \in Delivered(r) : Scanned("active", id, logOffset, r, got)
             /\ pc' = AfterCall(r, "returned")
             /\ newState' = IF r.outcome = "return"
                            THEN [RotatedLog |-> previouslyRotated,
                                  BytesRead |-> markerBytes(r.bytesRead, logOffset)]
                            ELSE newState
             /\ premises' = (premises /\ r.outcome = "return")
             /\ race' = Kept(r.outcome = "return")
             /\ UNCHANGED fault
  /\ UNCHANGED <<fsVars, stateFile, readerState, previouslyRotated, logOffset, runs,
                 rotSinceRun, listed, prev>>

\* the run is over: its locals are gone
Leave ==
  /\ UNCHANGED besideRun
  /\ pc' = "idle"
  /\ readerState' = ZeroState
  /\ previouslyRotated' = ZeroFileInfo
  /\ logOffset' = 0
  /\ batches' = <<>>
  /\ fault' = "none"
  /\ rotSinceRun' = 0
  /\ listed' = NoListing
  /\ UNCHANGED <<fsVars, runs, covered, twice, skipped, premises>>

\* processLogs after a successful ReadLogs: SaveState(conn, *newState)
SaveState ==
  /\ pc = "returned"
  /\ stateFile' = newState
  /\ prev' = [active |-> batches[Len(batches)].file, stamp |-> listed.stamp]
  /\ race' = CASE race = "raced" -> "saved"
              [] race = "saved" -> "over"
              [] OTHER -> race
  /\ UNCHANGED newState
  /\ Leave

\* processLogs returns the error of ReadLogs; main logs it
EndRun ==
  /\ pc = "error"
  /\ prev' = NoRun
  /\ race' = Kept(FALSE)
  /\ UNCHANGED <<stateFile, newState>>
  /\ Leave

InitRun ==
  /\ now = 1
  /\ files = [id \in FileIds |->
                IF id = 0 THEN [name |-> logName, mtime |-> 1, data |-> <<>>] ELSE NoFile]
  /\ nextId = 1
  /\ writes = 0
  /\ stateFile = ZeroState
  /\ pc = "idle"
  /\ readerState = ZeroState
  /\ previouslyRotated = ZeroFileInfo
  /\ logOffset = 0
  /\ newState = ZeroState
  /\ runs = 0
  /\ batches = <<>>
  /\ fault = "none"
  /\ covered = [id \in FileIds |-> {}]
  /\ twice = FALSE
  /\ skipped = FALSE
  /\ rotSinceRun = 0
  /\ premises = TRUE
  /\ listed = NoListing
  /\ prev = NoRun
  /\ race = "none"

\* ============================================ processRecords, goroutine by
\* goroutine.  A file is given by its lines: shape.pre well-formed lines,
\* then shape.bad lines that do not parse, then shape.post well-formed lines.
MaxGoodLines == 1
BadCounts == {1, ThrottleCap, ThrottleCap + 1}
\* shape.call: 1 for the first processRecords call of ReadLogs, 2 for the call
\* on the access log that follows the call on the rotated file.  The long runs
\* of bad lines are tried on the access log read alone.
Shapes ==
  {sh \in [pre : 0..MaxGoodLines, bad : BadCounts, post : 0..MaxGoodLines,
           file : {"rotated", "active"}, call : {1}] :
     /\ sh.pre + sh.post <= MaxGoodLines
     /\ sh.file = "rotated" => sh.bad = 1}
ActiveShapes ==
  {sh \in [pre : 0..MaxGoodLines, bad : {1}, post : 0..MaxGoodLines,
           file : {"active"}, call : {2}] :
     sh.pre + sh.post <= MaxGoodLines}

LineCount == shape.pre + shape.bad + shape.post
\* the kind of the i-th line (from 1)
KindAt(i) == IF i > shape.pre /\ i <= shape.pre + shape.bad THEN "bad" ELSE "good"
LineLen(kind) == IF kind = "good" THEN Len(GoodLine) ELSE 1

RecordsIdle ==
  /\ shape = [pre |-> 0, bad |-> 0, post |-> 0, file |-> "active", call |-> 1]
  /\ recPc = "returned"
  /\ scanned = 0
  /\ throttle = 0
  /\ wg = 0
  /\ parsing = [good |-> 0, bad |-> 0]
  /\ releasing = 0
  /\ bytesRead = 0
  /\ processed = 0

\* after Open and Seek: bytesRead := 0, an empty throttle, a zero WaitGroup
RecordsStart ==
  /\ shape \in Shapes
  /\ recPc = "scan"
  /\ scanned = 0
  /\ throttle = 0
  /\ wg = 0
  /\ parsing = [good |-> 0, bad |-> 0]
  /\ releasing = 0
  /\ bytesRead = 0
  /\ processed = 0

\* one turn of "for scanner.Scan()": throttle <- true (which waits while the
\* channel is full), wg.Add(1), go func, bytesRead += len(logLine) + 1
ScanLine ==
  /\ UNCHANGED besideRecords
  /\ recPc = "scan"
  /\ scanned < LineCount
  /\ throttle < ThrottleCap
  /\ LET kind == KindAt(scanned + 1)
     IN /\ parsing' = [parsing EXCEPT ![kind] = @ + 1]
        /\ bytesRead' = bytesRead + LineLen(kind) + 1
  /\ throttle' = throttle + 1
  /\ wg' = wg + 1
  /\ scanned' = scanned + 1
  /\ UNCHANGED <<shape, recPc, releasing, processed>>

\* scanner.Scan() returns false: on to wg.Wait()
ScanEnd ==
  /\ UNCHANGED besideRecords
  /\ recPc = "scan"
  /\ scanned = LineCount
  /\ recPc' = "wait"
  /\ UNCHANGED <<shape, scanned, throttle, wg, parsing, releasing, bytesRead, processed>>

\* a goroutine whose line does not parse: log, return, deferred wg.Done()
ParseFails ==
  /\ UNCHANGED besideRecords
  /\ parsing.bad > 0
  /\ parsing' = [parsing EXCEPT !.bad = @ - 1]
  /\ wg' = wg - 1
  /\ UNCHANGED <<shape, recPc, scanned, throttle, releasing, bytesRead, processed>>

\* a goroutine whose line parses: recordProcessor(logRecord)
Process ==
  /\ UNCHANGED besideRecords
  /\ parsing.good > 0
  /\ parsing' = [parsing EXCEPT !.good = @ - 1]
  /\ releasing' = releasing + 1
  /\ processed' = processed + 1
  /\ UNCHANGED <<shape, recPc, scanned, throttle, wg, bytesRead>>

\* the same goroutine: <-throttle, then the deferred wg.Done()
Release ==
  /\ UNCHANGED besideRecords
  /\ releasing > 0
  /\ throttle > 0
  /\ releasing' = releasing - 1
  /\ throttle' = throttle - 1
  /\ wg' = wg - 1
  /\ UNCHANGED <<shape, recPc, scanned, parsing, bytesRead, processed>>

\* a Wait that does not wait
waitSkipped(counter) == TRUE
\* sync.WaitGroup.Wait: blocks until the counter is zero
waitDone(counter) == counter = 0

\* wg.Wait() returns; return bytesRead, nil
WaitReturns ==
  /\ UNCHANGED besideRecords
  /\ recPc = "wait"
  /\ waitDone(wg)
  /\ recPc' = "returned"
  /\ UNCHANGED <<shape, scanned, throttle, wg, parsing, releasing, bytesRead, processed>>

\* ReadLogs, part_004 41-50: after processRecords returned for the rotated file,
\* processRecords is called for the access log: a new throttle, a new WaitGroup,
\* bytesRead := 0.  Goroutines of the first call, if any were left, keep running.
OpenActive ==
  /\ UNCHANGED besideRecords
  /\ recPc = "returned"
  /\ shape.file = "rotated"
  /\ shape' \in ActiveShapes
  /\ recPc' = "scan"
  /\ scanned' = 0
  /\ throttle' = 0
  /\ wg' = 0
  /\ bytesRead' = 0
  /\ processed' = 0
  /\ UNCHANGED <<parsing, releasing>>

\* ===================================== UsagesCollection.AddRecord, called by
\* the goroutines of processRecords.  Times are seconds since the epoch;
\* parseLine stores record.Time in UTC.
MaxAdds == 3          \* AddRecord calls
Workers == {1, 2}     \* goroutines inside AddRecord at the same time

\* usages.domains: domain -> website ID (0: not in the map)
domains(domain) ==
  CASE domain = "a.com" -> 1
    [] domain = "www.a.com" -> 1
    [] domain = "b.com" -> 2
    [] domain = "some-domain.com" -> 3
    [] OTHER -> 0

domainsToIgnore == {"cdn.redham.ru", "*"}

FileStore == "/filestore/"
LogRecord(domain, time, path, status, size) ==
  [Domain |-> domain, Time |-> time, Path |-> path, HTTPStatusCode |-> status, Size |-> size]

\* the records the goroutines pass to AddRecord; paths are sequences of
\* pieces, a leading "/filestore/" being one piece
Records ==
  {LogRecord("a.com", 3700, <<FileStore, "f">>, 200, 1),
   LogRecord("www.a.com", 5000, <<"/x">>, 200, 2),
   LogRecord("a.com", 3600, <<"/x">>, 400, 4),
   LogRecord("a.com", 7300, <<"/x">>, 200, 8),
   LogRecord("b.com", 3700, <<FileStore, "f">>, 400, 16),
   LogRecord("zz.org", 3700, <<"/x">>, 200, 32),
   LogRecord("a.com", 3700, <<"/x">>, 410, 64),
   LogRecord("*", 3700, <<"/x">>, 200, 128),
   LogRecord("cdn.redham.ru", 3700, <<FileStore, "f">>, 200, 256)}

\* time.Date(t.Year(), t.Month(), t.Day(), t.Hour(), 0, 0, 0, time.UTC), as Unix()
\* a truncation to the day
getDay(t) == t - (t % 86400)

getHour(t) == t - (t % 3600)

\* a test for the bare directory only
isFileExact(path) == path = <<FileStore>>

isFile(path) == HasPrefix(path, <<FileStore>>)
isOther(statusCode) == statusCode = 400
\* a filter on the status only
shouldIgnoreStatus(record) == record.HTTPStatusCode = 410

shouldIgnore(record) == record.HTTPStatusCode = 410 \/ record.Domain \in domainsToIgnore

\* strconv.Itoa(website.ID) + "-" + strconv.FormatInt(hour.Unix(), 10): the
\* two decimal numbers are read back from the string without ambiguity, so
\* the key is the pair
usageKey(id, hour) == <<id, hour>>
KeyOf(record) == usageKey(domains(record.Domain), getHour(record.Time))
Keys == {KeyOf(r) : r \in {x \in Records : domains(x.Domain) # 0}}
UnknownNames == {r.Domain : r \in {x \in Records : domains(x.Domain) = 0}}

Pointers == 1..MaxAdds
NoRecord == [WebsiteID |-> 0, Time |-> 0, FilesCount |-> 0, Files |-> 0, Dynamic |-> 0,
             DynamicCount |-> 0, Other |-> 0, OtherCount |-> 0]
\* &ConsumptionRecord{WebsiteID: website.ID, Time: hour}
ConsumptionRecord(id, hour) == [NoRecord EXCEPT !.WebsiteID = id, !.Time = hour]

\* the fields the switch of AddRecord updates for a record
BytesField(record) ==
  IF isFile(record.Path) THEN "Files"
  ELSE IF isOther(record.HTTPStatusCode) THEN "Other"
  ELSE "Dynamic"
CountField(record) ==
  IF isFile(record.Path) THEN "FilesCount"
  ELSE IF isOther(record.HTTPStatusCode) THEN "OtherCount"
  ELSE "DynamicCount"

\* a store of the size in place of the sum
assign(total, size) == size
\* usageRecord.Files += int64(record.Size), and the like
plus(total, size) == total + size

NoLogRecord == LogRecord("", 0, <<>>, 0, 0)
Idle == [pc |-> "idle", record |-> NoLogRecord, usageRecord |-> 0, tmp |-> 0]
Quiescent == \A w \in Workers : worker[w].pc = "idle"
Allocated == {o \in Pointers : heap[o] # NoRecord}

\* ---- what the totals have to be, from the calls made
RECURSIVE CallsOf(_)
CallsOf(rs) ==
  IF rs = {} THEN 0
  ELSE LET r == CHOOSE x \in rs : TRUE
       IN added[r] + CallsOf(rs \ {r})

RECURSIVE BytesOf(_)
BytesOf(rs) ==
  IF rs = {} THEN 0
  ELSE LET r == CHOOSE x \in rs : TRUE
       IN added[r] * r.Size + BytesOf(rs \ {r})

Counted(k) == {r \in Records : ~shouldIgnore(r) /\ domains(r.Domain) # 0 /\ KeyOf(r) = k}
Expected(k) ==
  [WebsiteID |-> k[1], Time |-> k[2],
   FilesCount |-> CallsOf({r \in Counted(k) : CountField(r) = "FilesCount"}),
   Files |-> BytesOf({r \in Counted(k) : BytesField(r) = "Files"}),
   Dynamic |-> BytesOf({r \in Counted(k) : BytesField(r) = "Dynamic"}),
   DynamicCount |-> CallsOf({r \in Counted(k) : CountField(r) = "DynamicCount"}),
   Other |-> BytesOf({r \in Counted(k) : BytesField(r) = "Other"}),
   OtherCount |-> CallsOf({r \in Counted(k) : CountField(r) = "OtherCount"})]
ExpectedUnknown(d) ==
  CallsOf({r \in Records : ~shouldIgnore(r) /\ domains(r.Domain) = 0 /\ r.Domain = d})

BucketRight(k) ==
  IF usages[k] = 0 THEN CallsOf(Counted(k)) = 0
  ELSE heap[usages[k]] = Expected(k)
Matches ==
  /\ \A k \in Keys : BucketRight(k)
  /\ \A d \in UnknownNames : unknownDomains[d] = ExpectedUnknown(d)

CallsMade == CallsOf(Records)

\* ---- AddRecord, step by step
AddIdle ==
  /\ usages = [k \in Keys |-> 0]
  /\ heap = [o \in Pointers |-> NoRecord]
  /\ unknownDomains = [d \in UnknownNames |-> 0]
  /\ worker = [w \in Workers |-> Idle]
  /\ added = [r \in Records |-> 0]
  /\ old = {}
  /\ sound = TRUE

\* lines 56-66: shouldIgnore, and the look-up in usages.domains
AddRecord(w, record) ==
  /\ UNCHANGED besideAdd
  /\ worker[w].pc = "idle"
  /\ CallsMade < MaxAdds
  /\ added' = [added EXCEPT ![record] = @ + 1]
  /\ IF Quiescent
     THEN old' = {k \in Keys : usages[k] # 0} /\ sound' = Matches
     ELSE UNCHANGED <<old, sound>>
  /\ worker' = [worker EXCEPT ![w] =
       IF shouldIgnore(record) THEN Idle
       ELSE IF domains(record.Domain) = 0 THEN [Idle EXCEPT !.pc = "unknown", !.record = record]
       ELSE [Idle EXCEPT !.pc = "read", !.record = record]]
  /\ UNCHANGED <<usages, heap, unknownDomains>>

\* a call made while no other call is running
AddRecordAlone(w, record) == Quiescent /\ AddRecord(w, record)

\* an addUnknownDomain that counts the domain twice
addUnknownDomainTwice(w) ==
  /\ UNCHANGED besideAdd
  /\ worker[w].pc = "unknown"
  /\ unknownDomains' = [unknownDomains EXCEPT ![worker[w].record.Domain] = @ + 2]
  /\ worker' = [worker EXCEPT ![w] = Idle]
  /\ UNCHANGED <<usages, heap, added, old, sound>>

\* addUnknownDomain, under unknownSync.Lock
addUnknownDomain(w) ==
  /\ UNCHANGED besideAdd
  /\ worker[w].pc = "unknown"
  /\ unknownDomains' = [unknownDomains EXCEPT ![worker[w].record.Domain] = @ + 1]
  /\ worker' = [worker EXCEPT ![w] = Idle]
  /\ UNCHANGED <<usages, heap, added, old, sound>>

\* lines 68-72: usageRecord, ok := usages.usages[usageKey], under RLock
ReadMap(w) ==
  /\ UNCHANGED besideAdd
  /\ worker[w].pc = "read"
  /\ LET found == usages[KeyOf(worker[w].record)]
     IN worker' = [worker EXCEPT ![w].usageRecord = found,
                                 ![w].pc = IF found = 0 THEN "create" ELSE "loadBytes"]
  /\ UNCHANGED <<usages, heap, unknownDomains, added, old, sound>>

\* lines 73-78: a new ConsumptionRecord, stored in the map under Lock
Create(w) ==
  /\ UNCHANGED besideAdd
  /\ worker[w].pc = "create"
  /\ LET k == KeyOf(worker[w].record)
         o == CHOOSE p \in Pointers \ Allocated : \A q \in Pointers \ Allocated : p <= q
     IN /\ heap' = [heap EXCEPT ![o] = ConsumptionRecord(k[1], k[2])]
        /\ usages' = [usages EXCEPT ![k] = o]
        /\ worker' = [worker EXCEPT ![w].usageRecord = o, ![w].pc = "loadBytes"]
  /\ UNCHANGED <<unknownDomains, added, old, sound>>

\* lines 80-90: "+=" and "++" on the fields of *usageRecord, outside every
\* lock: each is a load and a store that another goroutine's can come between
LoadBytes(w) ==
  /\ UNCHANGED besideAdd
  /\ worker[w].pc = "loadBytes"
  /\ worker' = [worker EXCEPT
       ![w].tmp = heap[worker[w].usageRecord][BytesField(worker[w].record)],
       ![w].pc = "storeBytes"]
  /\ UNCHANGED <<usages, heap, unknownDomains, added, old, sound>>

StoreBytes(w) ==
  /\ UNCHANGED besideAdd
  /\ worker[w].pc = "storeBytes"
  /\ heap' = [heap EXCEPT ![worker[w].usageRecord][BytesField(worker[w].record)] =
                plus(worker[w].tmp, worker[w].record.Size)]
  /\ worker' = [worker EXCEPT ![w].tmp = 0, ![w].pc = "loadCount"]
  /\ UNCHANGED <<usages, unknownDomains, added, old, sound>>

LoadCount(w) ==
  /\ UNCHANGED besideAdd
  /\ worker[w].pc = "loadCount"
  /\ worker' = [worker EXCEPT
       ![w].tmp = heap[worker[w].usageRecord][CountField(worker[w].record)],
       ![w].pc = "storeCount"]
  /\ UNCHANGED <<usages, heap, unknownDomains, added, old, sound>>

\* the store of the count, and the return of AddRecord
StoreCount(w) ==
  /\ UNCHANGED besideAdd
  /\ worker[w].pc = "storeCount"
  /\ heap' = [heap EXCEPT ![worker[w].usageRecord][CountField(worker[w].record)] =
                worker[w].tmp + 1]
  /\ worker' = [worker EXCEPT ![w] = Idle]
  /\ UNCHANGED <<usages, unknownDomains, added, old, sound>>

\* ================================= SaveConsumptions: the planning of batches
maxBatchSize == 100
MaxFullBatches == 1   \* full batches' worth of records of one website and month

\* strconv.Itoa, for the website ids (which are not negative): the decimal digits
RECURSIVE Itoa(_)
Itoa(n) == IF n < 10 THEN <<n>> ELSE Itoa(n \div 10) \o <<n % 10>>

\* time.Format("200601") of a UTC time given in seconds since the epoch
DaysInYear(y) == IF y % 4 = 0 THEN 366 ELSE 365
DaysInMonth(y, m) ==
  CASE m = 2 -> IF y % 4 = 0 THEN 29 ELSE 28
    [] m \in {4, 6, 9, 11} -> 30
    [] OTHER -> 31
RECURSIVE YearMonth(_, _, _)
YearMonth(days, y, m) ==
  IF days >= DaysInYear(y) /\ m = 1 THEN YearMonth(days - DaysInYear(y), y + 1, 1)
  ELSE IF days >= DaysInMonth(y, m) THEN YearMonth(days - DaysInMonth(y, m), y, m + 1)
  ELSE 100 * y + m
Format200601(t) == YearMonth(t \div 86400, 1970, 1)

TableNameTemplate == "usage"
\* a table that names one month always
usageTableFixed(requestTime) == <<TableNameTemplate, 197001>>
\* storage.AzureTable(settings.TableNameTemplate + requestTime.Format("200601"))
usageTable(requestTime) == <<TableNameTemplate, Format200601(requestTime)>>

\* var createdTables = make([]storage.AzureTable, 3): three empty names
NoTable == <<>>
FreshTables == <<NoTable, NoTable, NoTable>>

\* the records of one website: hours of January 1970 up to its end and hours
\* of February 1970 from its start, in turn
FebruaryStart == 2678400
Min(a, b) == IF a < b THEN a ELSE b
Hours(jan, feb) ==
  LET both == Min(jan, feb)
      janHour(k) == FebruaryStart - 3600 * (jan - k + 1)
      febHour(k) == FebruaryStart + 3600 * (k - 1)
  IN [i \in 1..(jan + feb) |->
        IF i <= 2 * both
        THEN IF i % 2 = 1 THEN janHour((i + 1) \div 2) ELSE febHour(i \div 2)
        ELSE IF jan > feb THEN janHour(i - both) ELSE febHour(i - both)]

Websites == {7, 12}
BigCounts ==
  {0, 1} \cup {b * maxBatchSize + d : b \in 1..MaxFullBatches, d \in {-1, 0, 1}}
Workloads ==
  {[w \in Websites |-> IF w = 7 THEN Hours(jan, feb) ELSE Hours(few, 0)] :
     jan \in BigCounts, feb \in {0, 1}, few \in {0, 1, 2}}

Tables == {usageTable(FebruaryStart - 3600), usageTable(FebruaryStart)}
Pairs == Tables \X Websites

\* the verb %d of fmt.Sprintf, for a number that is not negative: its decimal
\* digits as characters
DecimalChars == <<"0", "1", "2", "3", "4", "5", "6", "7", "8", "9">>
Sprintd(n) == [i \in 1..Len(Itoa(n)) |-> DecimalChars[Itoa(n)[i] + 1]]

\* servers.go 14-16: fmt.Sprintf("%s:%d", conn.Address, conn.Port); the address
\* is given by its characters
ServerName(address, port) == address \o <<":">> \o Sprintd(port)

\* the callers of SaveConsumptions: a host and the second the call starts in
Savers ==
  { <<ServerName(<<"web">>, 22), 1>>,
    <<ServerName(<<"web">>, 2), 21>>,
    <<ServerName(<<"web", "-", "1">>, 2), 1>> }

\* a row key that leaves the hour out
generateRowKeyOfRun(time, server, nowUnix) == server \o <<"-">> \o Sprintd(nowUnix)
\* fmt.Sprintf("%d-%s-%d", stats.Time.Unix(), server, now.Unix())
generateRowKey(time, server, nowUnix) ==
  Sprintd(time) \o <<"-">> \o server \o <<"-">> \o Sprintd(nowUnix)

\* &storage.TableEntity{PartitionKey: strconv.Itoa(websiteID), RowKey:
\* generateRowKey(stat, serverName, now), ..., Fields["Time"]}
TableEntity(websiteID, hour) ==
  [PartitionKey |-> Itoa(websiteID),
   RowKey |-> generateRowKey(hour, serverName, saveNow),
   Time |-> hour]

PlanIdle ==
  /\ consumptions = [w \in Websites |-> <<>>]
  /\ todo = {}
  /\ cur = 0
  /\ idx = 0
  /\ planned = [p \in Pairs |-> <<>>]
  /\ createdTables = FreshTables
  /\ planPc = "planned"
  /\ serverName = <<>>
  /\ saveNow = 0

PlanStart ==
  /\ consumptions \in Workloads
  /\ todo = Websites
  /\ cur = 0
  /\ idx = 0
  /\ planned = [p \in Pairs |-> <<>>]
  /\ createdTables = FreshTables
  /\ planPc = "plan"
  /\ \E s \in Savers : serverName = s[1] /\ saveNow = s[2]

\* "for websiteID, records := range consumptions": the next key, in any order
NextWebsite(w) ==
  /\ UNCHANGED besidePlan
  /\ planPc = "plan"
  /\ IF cur = 0 THEN TRUE ELSE idx = Len(consumptions[cur])
  /\ w \in todo
  /\ todo' = todo \ {w}
  /\ cur' = w
  /\ idx' = 0
  /\ UNCHANGED <<consumptions, planned, createdTables, planPc, serverName, saveNow>>

\* a planning that opens the new batch and leaves the entity out of it
withEntityLeftOut(websiteBatches, entity) ==
  LET nonEmpty == IF Len(websiteBatches) = 0 THEN << <<>> >> ELSE websiteBatches
      latest == nonEmpty[Len(nonEmpty)]
  IN IF Len(latest) + 1 >= maxBatchSize THEN Append(nonEmpty, <<>>)
     ELSE [nonEmpty EXCEPT ![Len(nonEmpty)] = Append(@, entity)]
\* lines 53-68: the batches of the website in the table, with the entity added
withEntity(websiteBatches, entity) ==
  LET nonEmpty == IF Len(websiteBatches) = 0 THEN << <<>> >> ELSE websiteBatches
      latest == nonEmpty[Len(nonEmpty)]
      opened == IF Len(latest) + 1 >= maxBatchSize THEN Append(nonEmpty, <<>>) ELSE nonEmpty
  IN [opened EXCEPT ![Len(opened)] = Append(@, entity)]

\* one turn of "for _, stat := range records"
PlanEntity ==
  /\ UNCHANGED besidePlan
  /\ planPc = "plan"
  /\ cur # 0
  /\ idx < Len(consumptions[cur])
  /\ LET hour == consumptions[cur][idx + 1]
         table == usageTable(hour)
         known == \E i \in 1..Len(createdTables) : createdTables[i] = table
     IN /\ createdTables' = IF known THEN createdTables ELSE Append(createdTables, table)
        /\ planned' = [planned EXCEPT ![<<table, cur>>] = withEntity(@, TableEntity(cur, hour))]
  /\ idx' = idx + 1
  /\ UNCHANGED <<consumptions, todo, cur, planPc, serverName, saveNow>>

\* the range is over
PlanEnd ==
  /\ UNCHANGED besidePlan
  /\ planPc = "plan"
  /\ todo = {}
  /\ cur # 0
  /\ idx = Len(consumptions[cur])
  /\ planPc' = "planned"
  /\ UNCHANGED <<consumptions, todo, cur, idx, planned, createdTables, serverName, saveNow>>

\* ============================== SaveConsumptions: the submission of batches
tableThrottleCap == 3
websiteThrottleCap == 6
MaxOverCap == 1   \* websites of a table, batches of a website: this many over the cap

January == usageTable(FebruaryStart - 3600)
February == usageTable(FebruaryStart)
SubmitWebsites == 1..(tableThrottleCap + MaxOverCap)
SubmitPairs == Tables \X SubmitWebsites

\* the maps the planning can leave: many websites in one table, many batches
\* of one website, two tables, and no record at all
PlanShapes ==
  { [p \in SubmitPairs |-> IF p[1] = January THEN 1 ELSE 0],
    [p \in SubmitPairs |-> IF p = <<January, 1>> THEN websiteThrottleCap + MaxOverCap ELSE 0],
    [p \in SubmitPairs |-> IF p = <<January, 1>> THEN 2
                           ELSE IF p \in {<<January, 2>>, <<February, 1>>} THEN 1 ELSE 0],
    [p \in SubmitPairs |-> 0] }

SubmitIdle ==
  /\ toSubmit = [p \in SubmitPairs |-> 0]
  /\ savePc = "idle"
  /\ saveErr = "none"
  /\ tablesLeft = {}
  /\ tablesWg = 0
  /\ tablePc = [t \in Tables |-> "idle"]
  /\ websitesLeft = [t \in Tables |-> {}]
  /\ tableThrottle = [t \in Tables |-> 0]
  /\ websitesWg = [t \in Tables |-> 0]
  /\ websitePc = [p \in SubmitPairs |-> "idle"]
  /\ batchesLeft = [p \in SubmitPairs |-> 0]
  /\ websiteThrottle = [p \in SubmitPairs |-> 0]
  /\ batchWg = [p \in SubmitPairs |-> 0]
  /\ inserting = [p \in SubmitPairs |-> 0]
  /\ logging = [p \in SubmitPairs |-> 0]
  /\ submitted = [p \in SubmitPairs |-> 0]
  /\ failed = [p \in SubmitPairs |-> 0]

\* line 73: the planning is over, batches holds the lists of batches
SubmitStart ==
  /\ toSubmit \in PlanShapes
  /\ savePc = "spawn"
  /\ saveErr = "none"
  /\ tablesLeft = {t \in Tables : \E w \in SubmitWebsites : toSubmit[<<t, w>>] > 0}
  /\ tablesWg = 0
  /\ tablePc = [t \in Tables |-> "idle"]
  /\ websitesLeft = [t \in Tables |-> {w \in SubmitWebsites : toSubmit[<<t, w>>] > 0}]
  /\ tableThrottle = [t \in Tables |-> 0]
  /\ websitesWg = [t \in Tables |-> 0]
  /\ websitePc = [p \in SubmitPairs |-> "idle"]
  /\ batchesLeft = toSubmit
  /\ websiteThrottle = [p \in SubmitPairs |-> 0]
  /\ batchWg = [p \in SubmitPairs |-> 0]
  /\ inserting = [p \in SubmitPairs |-> 0]
  /\ logging = [p \in SubmitPairs |-> 0]
  /\ submitted = [p \in SubmitPairs |-> 0]
  /\ failed = [p \in SubmitPairs |-> 0]

\* a channel that takes a value whatever it holds
canSendAlways(held, cap) == TRUE
\* "throttle <- true" on a channel made with capacity cap goes through when
\* the channel holds fewer than cap values, and waits otherwise
canSend(held, cap) == held < cap

\* a goroutine that ends without taking its value back from the channel
slotKept(held) == held
\* "<-throttle": one value leaves the channel
received(held) == held - 1

\* lines 75-84: tablesWg.Add(1); go func(table, tableBatches)
SpawnTable(t) ==
  /\ UNCHANGED besideSubmit
  /\ savePc = "spawn"
  /\ t \in tablesLeft
  /\ tablesLeft' = tablesLeft \ {t}
  /\ tablesWg' = tablesWg + 1
  /\ tablePc' = [tablePc EXCEPT ![t] = "loop"]
  /\ UNCHANGED <<toSubmit, savePc, saveErr, websitesLeft, tableThrottle, websitesWg,
                 websitePc, batchesLeft, websiteThrottle, batchWg, inserting, logging,
                 submitted, failed>>

\* lines 93-95: throttle <- true; websitesWg.Add(1); go func(websiteBatches)
SpawnWebsite(t, w) ==
  /\ UNCHANGED besideSubmit
  /\ tablePc[t] = "loop"
  /\ w \in websitesLeft[t]
  /\ canSend(tableThrottle[t], tableThrottleCap)
  /\ websitesLeft' = [websitesLeft EXCEPT ![t] = @ \ {w}]
  /\ tableThrottle' = [tableThrottle EXCEPT ![t] = @ + 1]
  /\ websitesWg' = [websitesWg EXCEPT ![t] = @ + 1]
  /\ websitePc' = [websitePc EXCEPT ![<<t, w>>] = "loop"]
  /\ UNCHANGED <<toSubmit, savePc, saveErr, tablesLeft, tablesWg, tablePc, batchesLeft,
                 websiteThrottle, batchWg, inserting, logging, submitted, failed>>

\* lines 112-117: throttle <- true; wg.Add(1); go func(batch), which calls
\* client.BatchInsert
SpawnBatch(p) ==
  /\ UNCHANGED besideSubmit
  /\ websitePc[p] = "loop"
  /\ batchesLeft[p] > 0
  /\ canSend(websiteThrottle[p], websiteThrottleCap)
  /\ batchesLeft' = [batchesLeft EXCEPT ![p] = @ - 1]
  /\ websiteThrottle' = [websiteThrottle EXCEPT ![p] = @ + 1]
  /\ batchWg' = [batchWg EXCEPT ![p] = @ + 1]
  /\ inserting' = [inserting EXCEPT ![p] = @ + 1]
  /\ submitted' = [submitted EXCEPT ![p] = @ + 1]
  /\ UNCHANGED <<toSubmit, savePc, saveErr, tablesLeft, tablesWg, tablePc, websitesLeft,
                 tableThrottle, websitesWg, websitePc, logging, failed>>

\* a goroutine that leaves at once when the insert failed
afterInsertAbort(err) == IF err THEN "done" ELSE "release"
\* lines 118-121: the error is logged, and the goroutine goes on to "<-throttle"
afterInsert(err) == "release"

\* line 117: client.BatchInsert returns, with an error or without
InsertReturn(p, err) ==
  /\ UNCHANGED besideSubmit
  /\ inserting[p] > 0
  /\ inserting' = [inserting EXCEPT ![p] = @ - 1]
  /\ failed' = [failed EXCEPT ![p] = IF err THEN @ + 1 ELSE @]
  /\ IF afterInsert(err) = "release"
     THEN /\ logging' = [logging EXCEPT ![p] = @ + 1]
          /\ UNCHANGED batchWg
     ELSE /\ batchWg' = [batchWg EXCEPT ![p] = @ - 1]
          /\ UNCHANGED logging
  /\ UNCHANGED <<toSubmit, savePc, saveErr, tablesLeft, tablesWg, tablePc, websitesLeft,
                 tableThrottle, websitesWg, websitePc, batchesLeft, websiteThrottle,
                 submitted>>

\* lines 121-122 and the deferred wg.Done(): <-throttle, and the goroutine ends
ReleaseBatch(p) ==
  /\ UNCHANGED besideSubmit
  /\ logging[p] > 0
  /\ websiteThrottle[p] > 0
  /\ logging' = [logging EXCEPT ![p] = @ - 1]
  /\ websiteThrottle' = [websiteThrottle EXCEPT ![p] = received(@)]
  /\ batchWg' = [batchWg EXCEPT ![p] = @ - 1]
  /\ UNCHANGED <<toSubmit, savePc, saveErr, tablesLeft, tablesWg, tablePc, websitesLeft,
                 tableThrottle, websitesWg, websitePc, batchesLeft, inserting, submitted,
                 failed>>

\* lines 124-125 and 98-103: wg.Wait() passes, processWebsiteBatches returns
\* nil, the website's goroutine does <-throttle and websitesWg.Done()
WebsiteReturn(p) ==
  /\ UNCHANGED besideSubmit
  /\ websitePc[p] = "loop"
  /\ batchesLeft[p] = 0
  /\ batchWg[p] = 0
  /\ websitePc' = [websitePc EXCEPT ![p] = "done"]
  /\ tableThrottle' = [tableThrottle EXCEPT ![p[1]] = received(@)]
  /\ websitesWg' = [websitesWg EXCEPT ![p[1]] = @ - 1]
  /\ UNCHANGED <<toSubmit, savePc, saveErr, tablesLeft, tablesWg, tablePc, websitesLeft,
                 batchesLeft, websiteThrottle, batchWg, inserting, logging, submitted,
                 failed>>

\* lines 105-106 and 78-83: websitesWg.Wait() passes, processTableBatches
\* returns nil, the table's goroutine does tablesWg.Done()
TableReturn(t) ==
  /\ UNCHANGED besideSubmit
  /\ tablePc[t] = "loop"
  /\ websitesLeft[t] = {}
  /\ websitesWg[t] = 0
  /\ tablePc' = [tablePc EXCEPT ![t] = "done"]
  /\ tablesWg' = tablesWg - 1
  /\ UNCHANGED <<toSubmit, savePc, saveErr, tablesLeft, websitesLeft, tableThrottle,
                 websitesWg, websitePc, batchesLeft, websiteThrottle, batchWg, inserting,
                 logging, submitted, failed>>

\* lines 85-87: tablesWg.Wait() passes; return nil
SaveReturn ==
  /\ UNCHANGED besideSubmit
  /\ savePc = "spawn"
  /\ tablesLeft = {}
  /\ tablesWg = 0
  /\ savePc' = "returned"
  /\ saveErr' = "nil"
  /\ UNCHANGED <<toSubmit, tablesLeft, tablesWg, tablePc, websitesLeft, tableThrottle,
                 websitesWg, websitePc, batchesLeft, websiteThrottle, batchWg, inserting,
                 logging, submitted, failed>>

\* ================================================= processLogs, step by step
\* The log is a number of lines; the marker counts the lines read.  A line
\* belongs to one of two websites, and the records of a website make one batch.
MaxLogLines == 3
LogLines == 1..MaxLogLines
SiteOf(line) == line % 2
Sites == {0, 1}

\* os.IsNotExist: the host has no state file
NoStateFile == -1

ProcIdle ==
  /\ logLen = 0
  /\ markerFile = NoStateFile
  /\ procPc = "idle"
  /\ loaded = 0
  /\ fresh = 0
  /\ consumed = {}
  /\ stored = {}
  /\ result = "none"
  /\ readOk = FALSE
  /\ persisted = FALSE
  /\ batchFailed = FALSE

\* nginx on the host writes a line
HostWritesLine ==
  /\ UNCHANGED besideProc
  /\ procPc = "idle"
  /\ logLen < MaxLogLines
  /\ logLen' = logLen + 1
  /\ UNCHANGED <<markerFile, procPc, loaded, fresh, consumed, stored, result, readOk,
                 persisted, batchFailed>>

\* a GetState for which a missing file is an error like the others
getStateStrict(file, readErr) ==
  IF file = NoStateFile \/ readErr THEN [state |-> 0, err |-> TRUE]
  ELSE [state |-> file, err |-> FALSE]
\* state.go 25-45: GetState; a missing file gives State{} and no error, a file
\* that cannot be read or decoded gives State{} and the error
getStateOf(file, readErr) ==
  IF file = NoStateFile THEN [state |-> 0, err |-> FALSE]
  ELSE IF readErr THEN [state |-> 0, err |-> TRUE]
  ELSE [state |-> file, err |-> FALSE]

\* main.go 58-63: GetState; its error ends the run
ProcGetState(readErr) ==
  /\ UNCHANGED besideProc
  /\ procPc = "idle"
  /\ LET got == getStateOf(markerFile, readErr)
     IN /\ loaded' = got.state
        /\ procPc' = IF got.err THEN "done" ELSE "read"
        /\ result' = IF got.err THEN "error" ELSE "none"
  /\ fresh' = 0
  /\ consumed' = {}
  /\ readOk' = FALSE
  /\ persisted' = FALSE
  /\ batchFailed' = FALSE
  /\ UNCHANGED <<logLen, markerFile, stored>>

\* main.go 65-68: ReadLogs gives every line after the marker to AddRecord and
\* returns the new marker, or it returns an error
ProcReadLogs(err) ==
  /\ UNCHANGED besideProc
  /\ procPc = "read"
  /\ IF err
     THEN /\ procPc' = "done"
          /\ result' = "error"
          /\ UNCHANGED <<fresh, consumed, readOk>>
     ELSE /\ procPc' = "save"
          /\ fresh' = logLen
          /\ consumed' = (loaded + 1)..logLen
          /\ readOk' = TRUE
          /\ UNCHANGED result
  /\ UNCHANGED <<logLen, markerFile, loaded, stored, persisted, batchFailed>>

\* main.go 74-78 and state.go 48-62: SaveState; the error of ioutil.WriteFile
\* is dropped and SaveState returns nil whether the file was written or not
ProcSaveState(written) ==
  /\ UNCHANGED besideProc
  /\ procPc = "save"
  /\ markerFile' = IF written THEN fresh ELSE markerFile
  /\ persisted' = written
  /\ procPc' = "upload"
  /\ UNCHANGED <<logLen, loaded, fresh, consumed, stored, result, readOk, batchFailed>>

\* main.go 80-86 and part_002 25-88: SaveConsumptions returns the error of
\* NewBasicClient, or it submits the batches, logs the ones that fail and
\* returns nil
ProcSaveConsumptions(clientErr, okSites) ==
  /\ UNCHANGED besideProc
  /\ procPc = "upload"
  /\ IF clientErr
     THEN /\ result' = "error"
          /\ UNCHANGED <<stored, batchFailed>>
     ELSE /\ result' = "nil"
          /\ stored' = stored \cup {l \in consumed : SiteOf(l) \in okSites}
          /\ batchFailed' = \E l \in consumed : SiteOf(l) \notin okSites
  /\ procPc' = "done"
  /\ UNCHANGED <<logLen, markerFile, loaded, fresh, consumed, readOk, persisted>>

\* processLogs has returned; main logs the error, if any
ProcReturn ==
  /\ UNCHANGED besideProc
  /\ procPc = "done"
  /\ procPc' = "idle"
  /\ UNCHANGED <<logLen, markerFile, loaded, fresh, consumed, stored, result, readOk,
                 persisted, batchFailed>>

\* ==================================================== the table client
\* The answer of the store to one request: a status code and a body, which is
\* empty, not JSON, an odata.error document, or fails while it is read.
StatusCodes ==
  {200, 201, 202, 204, 301, 304, 400, 401, 403, 404, 409, 413, 500, 503, 505, 507}
Bodies == {"empty", "garbage", "odata", "unreadable"}
Answers ==
  [transport : {TRUE}, statusCode : {0}, body : {"empty"}] \cup
  [transport : {FALSE}, statusCode : StatusCodes, body : Bodies]

NoError == [type |-> "nil", statusCode |-> 0]
NoResponse == [statusCode |-> 0]

\* client.go 293-334: execInternalJSON gives a response (or nil) and an error
execInternalJSON(a) ==
  IF a.transport
  THEN [resp |-> NoResponse, err |-> [type |-> "transport", statusCode |-> 0]]
  ELSE IF a.statusCode >= 400 /\ a.statusCode <= 505
       THEN CASE a.body = "unreadable" ->
                   [resp |-> NoResponse, err |-> [type |-> "read", statusCode |-> 0]]
              [] a.body = "empty" ->
                   [resp |-> [statusCode |-> a.statusCode],
                    err |-> [type |-> "no body", statusCode |-> a.statusCode]]
              [] a.body = "garbage" ->
                   [resp |-> [statusCode |-> a.statusCode],
                    err |-> [type |-> "json", statusCode |-> 0]]
              [] OTHER ->
                   \* json.Unmarshal of an odata.error document returns nil
                   [resp |-> [statusCode |-> a.statusCode], err |-> NoError]
       ELSE [resp |-> [statusCode |-> a.statusCode], err |-> NoError]

\* client.go 374-381
checkRespCode(respCode, allowed) ==
  IF respCode \in allowed THEN NoError
  ELSE [type |-> "unexpected status", statusCode |-> respCode]

\* table.go 280-297: TableServiceClient.execTable gives the status code, or 0
\* and the error
execTable(a) ==
  LET r == execInternalJSON(a)
  IN IF r.err # NoError THEN [statusCode |-> 0, err |-> r.err]
     ELSE [statusCode |-> r.resp.statusCode, err |-> NoError]

\* table.go 198-204
InsertEntityResult(a) ==
  LET r == execTable(a)
  IN IF r.err # NoError THEN checkRespCode(r.statusCode, {201}) ELSE NoError

\* table.go 208-236
BatchInsertResult(a) ==
  LET r == execInternalJSON(a)
  IN IF r.err # NoError THEN r.err ELSE NoError

HttpIdle ==
  /\ answer = [transport |-> TRUE, statusCode |-> 0, body |-> "empty"]
  /\ called = "none"
  /\ returnedErr = NoError

HttpStart ==
  /\ answer \in Answers
  /\ called = "none"
  /\ returnedErr = NoError

InsertEntity ==
  /\ UNCHANGED besideHttp
  /\ called = "none"
  /\ called' = "InsertEntity"
  /\ returnedErr' = InsertEntityResult(answer)
  /\ UNCHANGED answer

BatchInsert ==
  /\ UNCHANGED besideHttp
  /\ called = "none"
  /\ called' = "BatchInsert"
  /\ returnedErr' = BatchInsertResult(answer)
  /\ UNCHANGED answer

\* ============================================================== parseLine
\* A line is a sequence of pieces of text: the double quote, the space, and
\* pieces that hold neither.  Numbers are written digit by digit.
Q == "\""
SP == " "
Digits == <<"0", "1", "2", "3", "4", "5", "6", "7", "8", "9">>
IsDigit(c) == \E i \in 1..10 : Digits[i] = c
DigitValue(c) == (CHOOSE i \in 1..10 : Digits[i] = c) - 1

\* the first position of piece x in s at or after from, 0 when there is none
IndexFrom(s, x, from) ==
  LET ps == {p \in from..Len(s) : s[p] = x}
  IN IF ps = {} THEN 0 ELSE CHOOSE p \in ps : \A q \in ps : p <= q

\* lineSplitRegex.FindAllStringSubmatch(line, -1) for "(.*?)": from a quote to
\* the next quote, again after it; the submatch is what lies between
RECURSIVE FindAllStringSubmatch(_, _)
FindAllStringSubmatch(line, from) ==
  LET open == IndexFrom(line, Q, from)
      close == IF open = 0 THEN 0 ELSE IndexFrom(line, Q, open + 1)
  IN IF close = 0 THEN <<>>
     ELSE <<SubSeq(line, open + 1, close - 1)>> \o FindAllStringSubmatch(line, close + 1)

\* state.go 151-163
splitLine(line) ==
  LET matches == FindAllStringSubmatch(line, 1)
  IN [result |-> matches, err |-> Len(matches) = 0]

\* time.Parse("[02/Jan/2006:15:04:05 -0700]", value): the reading of the wall
\* clock, in seconds since 1970-01-01T00:00:00 on that clock, and the zone's
\* offset in seconds
WallClock(text) ==
  CASE text = "31/Jul/2016:22:54:30" -> 1470005670
    [] text = "01/Jan/1970:05:00:10" -> 18010
    [] OTHER -> -1
ZoneOffset(text) ==
  CASE text = "+0400" -> 14400
    [] text = "+0000" -> 0
    [] OTHER -> -1
timeParse(value) ==
  IF /\ Len(value) = 5
     /\ value[1] = "[" /\ value[3] = SP /\ value[5] = "]"
     /\ WallClock(value[2]) # -1
     /\ ZoneOffset(value[4]) # -1
  THEN [wall |-> WallClock(value[2]), offset |-> ZoneOffset(value[4]), err |-> FALSE]
  ELSE [wall |-> 0, offset |-> 0, err |-> TRUE]

\* the wall clock's reading taken for the instant
UnixOfWall(date) == date.wall
\* date.UTC(), as seconds since the epoch
UnixOf(date) == date.wall - date.offset

\* strconv.ParseFloat(s, 64), for decimal notation: whether it fails
ParseFloatFails(s) ==
  \/ \A i \in 1..Len(s) : ~IsDigit(s[i])
  \/ \E i \in 1..Len(s) : ~IsDigit(s[i]) /\ s[i] # "."
  \/ Cardinality({i \in 1..Len(s) : s[i] = "."}) > 1

\* strconv.Atoi(s), for numbers without a sign
RECURSIVE DecimalValue(_)
DecimalValue(s) ==
  IF Len(s) = 0 THEN 0
  ELSE 10 * DecimalValue(SubSeq(s, 1, Len(s) - 1)) + DigitValue(s[Len(s)])
Atoi(s) ==
  IF Len(s) > 0 /\ \A i \in 1..Len(s) : IsDigit(s[i])
  THEN [value |-> DecimalValue(s), err |-> FALSE]
  ELSE [value |-> 0, err |-> TRUE]

\* strings.Split(s, " ")
RECURSIVE Split(_)
Split(s) ==
  LET at == IndexFrom(s, SP, 1)
  IN IF at = 0 THEN <<s>>
     ELSE <<SubSeq(s, 1, at - 1)>> \o Split(SubSeq(s, at + 1, Len(s)))

\* strings.Join(parts, " ")
RECURSIVE Join(_)
Join(parts) ==
  IF Len(parts) = 0 THEN <<>>
  ELSE IF Len(parts) = 1 THEN parts[1]
  ELSE parts[1] \o <<SP>> \o Join(Tail(parts))

\* a string that is one piece of text, or the empty string
Word(s) == IF Len(s) = 1 THEN s[1] ELSE ""

\* a test that lets lines of more than nine fields pass
tooFewFields(n) == n < 9
\* len(results) != 9
wrongFieldCount(n) == n # 9

\* return nil, err
ParseError ==
  [done |-> TRUE, isNil |-> TRUE, record |-> NoLogRecord, err |-> TRUE, panic |-> FALSE]
\* state.go 99-147: what parseLine returns, or that it panics in
\* results[0][:strings.Index(results[0], "(")], the index being -1
parseLineOf(line) ==
  LET split == splitLine(line)
      results == split.result
  IN IF split.err THEN ParseError
     ELSE IF wrongFieldCount(Len(results)) THEN ParseError
     ELSE LET date == timeParse(results[2])
              requestStrings == Split(results[4])
              httpStatusCode == Atoi(results[5])
              size == Atoi(results[6])
          IN IF date.err THEN ParseError
             ELSE IF ParseFloatFails(results[3]) THEN ParseError
             ELSE IF Len(requestStrings) < 3 THEN ParseError
             ELSE IF httpStatusCode.err THEN ParseError
             ELSE IF size.err THEN ParseError
             ELSE IF IndexFrom(results[1], "(", 1) = 0
                  THEN [done |-> TRUE, isNil |-> TRUE, record |-> NoLogRecord,
                        err |-> FALSE, panic |-> TRUE]
                  ELSE [done |-> TRUE, isNil |-> FALSE,
                        record |-> LogRecord(Word(results[7]), UnixOf(date),
                                             Join(SubSeq(requestStrings, 2,
                                                         Len(requestStrings) - 1)),
                                             httpStatusCode.value, size.value),
                        err |-> FALSE, panic |-> FALSE]

\* ---- the lines given to parseLine
Quoted(text) == <<Q>> \o text \o <<Q>>
FirstField(v) ==
  CASE v = "quoted" -> Quoted(<<"111.111.111.111", "(", "-)">>)
    [] v = "bare" -> <<"111.111.111.111", "(", "-)">>
    [] OTHER -> Quoted(<<"111.111.111.111">>)
StampField(v) ==
  CASE v = "+0400" -> <<"[", "31/Jul/2016:22:54:30", SP, "+0400", "]">>
    [] v = "+0000" -> <<"[", "01/Jan/1970:05:00:10", SP, "+0000", "]">>
    [] OTHER -> <<"2016-07-31T22:54:30+04:00">>
DurationField(v) == IF v = "number" THEN <<"0", ".", "2", "4", "7">> ELSE <<"-">>
RequestField(v) ==
  CASE v = "three" -> <<"GET", SP, "/some/file.jpg", SP, "HTTP/1.1">>
    [] v = "file" -> <<"GET", SP, FileStore, "file.jpg", SP, "HTTP/1.1">>
    [] v = "spaced" -> <<"GET", SP, "/some", SP, "file.jpg", SP, "HTTP/1.1">>
    [] OTHER -> <<"GET", SP, "/some/file.jpg">>
StatusField(v) ==
  CASE v = "200" -> <<"2", "0", "0">>
    [] v = "400" -> <<"4", "0", "0">>
    [] OTHER -> <<"2", "x", "0">>
SizeField(v) == IF v = "32327" THEN <<"3", "2", "3", "2", "7">> ELSE <<"-">>
TailFields(v) ==
  CASE v = "nine" -> Quoted(<<"http://some-referrer.com/">>) \o <<SP>> \o Quoted(<<"UA">>)
    [] v = "ten" -> Quoted(<<"http://some-referrer.com/">>) \o <<SP>> \o Quoted(<<"UA">>)
                      \o <<SP>> \o Quoted(<<"-">>)
    [] OTHER -> Quoted(<<"http://some-referrer.com/">>)

Makes ==
  [first : {"quoted", "bare", "no paren"}, stamp : {"+0400", "+0000", "iso"},
   duration : {"number", "dash"}, request : {"three", "file", "spaced", "two"},
   status : {"200", "400", "2x0"}, size : {"32327", "dash"},
   tail : {"nine", "ten", "eight"}]

LineOf(m) ==
  FirstField(m.first) \o <<SP>> \o Quoted(StampField(m.stamp)) \o <<SP>>
    \o Quoted(DurationField(m.duration)) \o <<SP>> \o Quoted(RequestField(m.request))
    \o <<SP>> \o Quoted(StatusField(m.status)) \o <<SP>> \o Quoted(SizeField(m.size))
    \o <<SP>> \o Quoted(<<"some-domain.com">>) \o <<SP>> \o TailFields(m.tail)

NotParsed ==
  [done |-> FALSE, isNil |-> TRUE, record |-> NoLogRecord, err |-> FALSE, panic |-> FALSE]
NotAggregated == [done |-> FALSE, key |-> <<0, 0>>, usageRecord |-> NoRecord, unknown |-> ""]

\* part_003 55-91: AddRecord on a collection that is empty
AddToEmpty(record) ==
  IF shouldIgnore(record) THEN [NotAggregated EXCEPT !.done = TRUE]
  ELSE IF domains(record.Domain) = 0
       THEN [NotAggregated EXCEPT !.done = TRUE, !.unknown = record.Domain]
       ELSE LET k == KeyOf(record)
                fresh0 == ConsumptionRecord(k[1], k[2])
            IN [NotAggregated EXCEPT
                  !.done = TRUE,
                  !.key = k,
                  !.usageRecord = [fresh0 EXCEPT ![BytesField(record)] = plus(@, record.Size),
                                                 ![CountField(record)] = @ + 1]]

ParseIdle ==
  /\ made = [first |-> "quoted", stamp |-> "+0400", duration |-> "number",
             request |-> "three", status |-> "200", size |-> "32327", tail |-> "nine"]
  /\ parseOut = NotParsed
  /\ aggregated = NotAggregated

ParseStart ==
  /\ made \in Makes
  /\ parseOut = NotParsed
  /\ aggregated = NotAggregated

\* part_004 132-140: the goroutine of processRecords calls parseLine
ParseLine ==
  /\ UNCHANGED besideParse
  /\ ~parseOut.done
  /\ parseOut' = parseLineOf(LineOf(made))
  /\ UNCHANGED <<made, aggregated>>

\* part_004 141-147: recordProcessor(record) when parseLine returned no error
Aggregate ==
  /\ UNCHANGED besideParse
  /\ parseOut.done /\ ~parseOut.err /\ ~parseOut.panic
  /\ ~aggregated.done
  /\ aggregated' = AddToEmpty(parseOut.record)
  /\ UNCHANGED <<made, parseOut>>

\* ========================================= main: one goroutine per server
MaxHosts == 2
Hosts == 1..MaxHosts
Main == 0
Addresses == {"10.0.0.1", "10.0.0.2"}
Ports == {22, 2222}
ConnectionInfo == [Address : Addresses, Port : Ports]
\* the servers of the settings file: no two entries alike.  Of the files that
\* list the same servers one is taken, the one that lists them by port and
\* then by address.
Before(a, b) ==
  \/ a.Port < b.Port
  \/ a.Port = b.Port /\ a.Address = "10.0.0.1" /\ b.Address = "10.0.0.2"
Settings ==
  {cfg \in [Hosts -> ConnectionInfo] : \A g, h \in Hosts : g < h => Before(cfg[g], cfg[h])}

\* fmt.Sprintf("state_%d.json", conn.Port)
buildStateFileName(conn) == <<"state_">> \o Itoa(conn.Port) \o <<".json">>
StateFileNames == {buildStateFileName(c) : c \in ConnectionInfo}

\* what the goroutines of two hosts can both reach: the package variable
\* createdTables and the state files
TablesVar == <<"createdTables">>
SharedObjects == {TablesVar} \cup StateFileNames
Untouched == [o \in SharedObjects |-> [readers |-> {}, writers |-> {}]]
Reads(h, o) == [touched EXCEPT ![o].readers = @ \cup {h}]
Writes(h, o) == [touched EXCEPT ![o].writers = @ \cup {h}]

HostsIdle ==
  /\ servers = [h \in Hosts |-> [Address |-> "10.0.0.1", Port |-> 22]]
  /\ hostPc = [h \in Hosts \cup {Main} |-> "done"]
  /\ hostsWg = 0
  /\ hostLoaded = [h \in Hosts |-> <<>>]
  /\ stateFiles = [f \in StateFileNames |-> 0]
  /\ touched = Untouched

\* main.go 36-37: wg.Add(len(settings.Servers)); main is about to range over
\* the servers, no goroutine is started yet
HostsStart ==
  /\ servers \in Settings
  /\ hostPc = [h \in Hosts \cup {Main} |-> IF h = Main THEN "loop" ELSE "new"]
  /\ hostsWg = MaxHosts
  /\ hostLoaded = [h \in Hosts |-> <<>>]
  /\ stateFiles = [f \in StateFileNames |-> 0]
  /\ touched = Untouched

\* a loop that goes on to wg.Wait() after its first turn
lastTurnFirst(h) == TRUE
\* "for _, conn := range settings.Servers": the turn of the last server
lastTurn(h) == h = MaxHosts

\* main.go 38-46: one turn of the loop, "go func(connection)", the servers
\* taken in the order of the slice; after the last turn main is at wg.Wait()
MainSpawn(h) ==
  /\ UNCHANGED besideHosts
  /\ hostPc[Main] = "loop"
  /\ hostPc[h] = "new"
  /\ \A g \in Hosts : g < h => hostPc[g] # "new"
  /\ hostPc' = [hostPc EXCEPT ![h] = "getState",
                              ![Main] = IF lastTurn(h) THEN "wait" ELSE "loop"]
  /\ UNCHANGED <<servers, hostsWg, hostLoaded, stateFiles, touched, createdTables>>

\* main.go 58-61: GetState reads the host's state file; a read error other
\* than a missing file ends processLogs
HostGetState(h, err) ==
  /\ UNCHANGED besideHosts
  /\ hostPc[h] = "getState"
  /\ touched' = Reads(h, buildStateFileName(servers[h]))
  /\ hostPc' = [hostPc EXCEPT ![h] = IF err THEN "failed" ELSE "readLogs"]
  /\ UNCHANGED <<servers, hostsWg, hostLoaded, stateFiles, createdTables>>

\* main.go 65-68: ReadLogs, over the host's own connection; it fails, or it
\* finds no record, or some; or its scan loop blocks for ever (part_004 134),
\* or a goroutine of it panics (state.go 140) and the process dies, the
\* goroutines of the other hosts and main with it
HostReadLogs(h, outcome) ==
  /\ UNCHANGED besideHosts
  /\ hostPc[h] = "readLogs"
  /\ hostPc' = IF outcome = "panic" THEN [g \in Hosts \cup {Main} |-> "crashed"]
               ELSE [hostPc EXCEPT ![h] = CASE outcome = "error" -> "failed"
                                            [] outcome = "empty" -> "saveEmpty"
                                            [] outcome = "block" -> "blocked"
                                            [] OTHER -> "saveState"]
  /\ UNCHANGED <<servers, hostsWg, hostLoaded, stateFiles, touched, createdTables>>

\* main.go 75-78: SaveState writes the host's state file
HostSaveState(h) ==
  /\ UNCHANGED besideHosts
  /\ hostPc[h] \in {"saveState", "saveEmpty"}
  /\ stateFiles' = [stateFiles EXCEPT ![buildStateFileName(servers[h])] = h]
  /\ touched' = Writes(h, buildStateFileName(servers[h]))
  /\ hostPc' = [hostPc EXCEPT ![h] = IF @ = "saveEmpty" THEN "succeeded" ELSE "range"]
  /\ UNCHANGED <<servers, hostsWg, hostLoaded, createdTables>>

\* part_002 136-140, called from SaveConsumptions: "for _, table := range
\* createdTables", which returns when it finds the table
HostRangeTables(h) ==
  /\ UNCHANGED besideHosts
  /\ hostPc[h] = "range"
  /\ touched' = Reads(h, TablesVar)
  /\ hostPc' = [hostPc EXCEPT ![h] =
                  IF \E i \in 1..Len(createdTables) : createdTables[i] = January
                  THEN "succeeded" ELSE "load"]
  /\ UNCHANGED <<servers, hostsWg, hostLoaded, stateFiles, createdTables>>

\* part_002 142-143: CreateTable, and the load of createdTables for append;
\* no lock is held
HostLoadTables(h) ==
  /\ UNCHANGED besideHosts
  /\ hostPc[h] = "load"
  /\ hostLoaded' = [hostLoaded EXCEPT ![h] = createdTables]
  /\ touched' = Reads(h, TablesVar)
  /\ hostPc' = [hostPc EXCEPT ![h] = "store"]
  /\ UNCHANGED <<servers, hostsWg, stateFiles, createdTables>>

\* part_002 143: the store of append's result
HostStoreTables(h) ==
  /\ UNCHANGED besideHosts
  /\ hostPc[h] = "store"
  /\ createdTables' = Append(hostLoaded[h], January)
  /\ touched' = Writes(h, TablesVar)
  /\ hostPc' = [hostPc EXCEPT ![h] = "succeeded"]
  /\ UNCHANGED <<servers, hostsWg, hostLoaded, stateFiles>>

\* main.go 40-45: processLogs has returned; its error is logged; wg.Done()
HostDone(h) ==
  /\ UNCHANGED besideHosts
  /\ hostPc[h] \in {"succeeded", "failed"}
  /\ hostPc' = [hostPc EXCEPT ![h] = IF @ = "failed" THEN "done with error" ELSE "done"]
  /\ hostsWg' = hostsWg - 1
  /\ UNCHANGED <<servers, hostLoaded, stateFiles, touched, createdTables>>

\* main.go 47: wg.Wait() passes and main returns
MainReturn ==
  /\ UNCHANGED besideHosts
  /\ hostPc[Main] = "wait"
  /\ hostsWg = 0
  /\ hostPc' = [hostPc EXCEPT ![Main] = "returned"]
  /\ UNCHANGED <<servers, hostsWg, hostLoaded, stateFiles, touched, createdTables>>

\* ================================================= the signing of requests
\* Strings are sequences of pieces of text; a header that the map does not
\* hold has the value Absent, and a look-up of it gives the empty string.
NL == "\n"
Absent == "(absent)"
HeaderNames == {"x-ms-date", "x-ms-version", "Content-Type", "Content-Length", "Accept"}
Lookup(headers, name) ==
  IF name \notin DOMAIN headers \/ headers[name] = Absent THEN <<>> ELSE <<headers[name]>>

accountName == "account"
accountKey == "key"

\* hmac.New(sha256.New, c.accountKey), Write, Sum and the base64 encoding: a
\* term of the key and the message, two terms being equal only when both are
computeHmac256(message) == <<"hmac-sha256", accountKey, message>>

\* strings.TrimSpace(strings.ToLower(k)) and the match of "x-ms-"
LowerName(k) == IF k = "Content-Type" THEN "content-type"
                ELSE IF k = "Content-Length" THEN "content-length"
                ELSE IF k = "Accept" THEN "accept" ELSE k
MatchesXMs(name) == name \in {"x-ms-date", "x-ms-version"}

\* the order of strings that sort.Strings uses, on the names
NameOrder == <<"accept", "content-length", "content-type", "x-ms-date", "x-ms-version">>
RankOfName(name) == CHOOSE i \in 1..Len(NameOrder) : NameOrder[i] = name

\* the keys as the range over the map gave them
unsorted(keys) == keys
\* sort.Strings(keys)
RECURSIVE sortStrings(_)
sortStrings(keys) ==
  IF Len(keys) = 0 THEN <<>>
  ELSE LET least == CHOOSE i \in 1..Len(keys) :
                      \A j \in 1..Len(keys) : RankOfName(keys[i]) <= RankOfName(keys[j])
       IN <<keys[least]>>
            \o sortStrings([j \in 1..(Len(keys) - 1) |-> IF j < least THEN keys[j] ELSE keys[j + 1]])

\* client.go 173-205; order is the order in which "range headers" and
\* "range cm" give the keys
RECURSIVE JoinHeaders(_, _)
JoinHeaders(keys, headers) ==
  IF Len(keys) = 0 THEN <<>>
  ELSE IF Len(keys) = 1 THEN <<keys[1], ":", headers[keys[1]]>>
  ELSE <<keys[1], ":", headers[keys[1]], NL>> \o JoinHeaders(Tail(keys), headers)
buildCanonicalizedHeader(headers, order) ==
  LET present == SelectSeq(order, LAMBDA k : headers[k] # Absent /\ MatchesXMs(LowerName(k)))
      cm == [k \in {LowerName(present[i]) : i \in 1..Len(present)} |->
               headers[CHOOSE n \in Range(present) : LowerName(n) = k]]
      keys == sortStrings([i \in 1..Len(present) |-> LowerName(present[i])])
  IN JoinHeaders(keys, cm)

\* client.go 207-221: "/" + c.accountName + u.Path
buildCanonicalizedResourceTable(path) == <<"/", accountName>> \o path

\* client.go 269-291
buildCanonicalizedString(verb, headers, canonicalizedResource, order) ==
  LET contentLength == IF Lookup(headers, "Content-Length") = <<"0">> THEN <<>>
                       ELSE Lookup(headers, "Content-Length")
  IN <<verb, NL>> \o Lookup(headers, "Content-Encoding") \o <<NL>>
       \o Lookup(headers, "Content-Language") \o <<NL>>
       \o contentLength \o <<NL>>
       \o Lookup(headers, "Content-MD5") \o <<NL>>
       \o Lookup(headers, "Content-Type") \o <<NL>>
       \o Lookup(headers, "Date") \o <<NL>>
       \o Lookup(headers, "If-Modified-Since") \o <<NL>>
       \o Lookup(headers, "If-Match") \o <<NL>>
       \o Lookup(headers, "If-None-Match") \o <<NL>>
       \o Lookup(headers, "If-Unmodified-Since") \o <<NL>>
       \o Lookup(headers, "Range") \o <<NL>>
       \o buildCanonicalizedHeader(headers, order) \o <<NL>>
       \o canonicalizedResource

\* client.go 158-161
createAuthorizationHeader(canonicalizedString) ==
  <<"SharedKey", SP, accountName, ":", computeHmac256(canonicalizedString)>>

\* client.go 336-346: the string signed for the requests to the tables, and
\* the header made of it
stringToSignLite(path, headers) ==
  Lookup(headers, "x-ms-date") \o <<NL>> \o buildCanonicalizedResourceTable(path)
createSharedKeyLite(path, headers) ==
  <<"SharedKeyLite", SP, accountName, ":", computeHmac256(stringToSignLite(path, headers))>>

\* ---- the requests signed
HeaderMaps ==
  {h \in [HeaderNames -> {"Sun, 31 Jul 2016 18:54:30 GMT", "Sun, 31 Jul 2016 18:54:31 GMT",
                          "2015-02-21", "application/json", "multipart/mixed", "0", "12",
                          Absent}] :
     /\ h["x-ms-date"] \in {"Sun, 31 Jul 2016 18:54:30 GMT", "Sun, 31 Jul 2016 18:54:31 GMT"}
     /\ h["x-ms-version"] \in {"2015-02-21", Absent}
     /\ h["Content-Type"] \in {"application/json", "multipart/mixed"}
     /\ h["Content-Length"] \in {"0", "12", Absent}
     /\ h["Accept"] \in {"application/json", Absent}}
Requests == [verb : {"POST"}, path : {<<"/", "Tables">>, <<"/", "$batch">>}, headers : HeaderMaps]
\* two requests alike, or different in the path alone, or in one header alone
Near(r, q) ==
  \/ r.headers = q.headers
  \/ r.path = q.path /\ Cardinality({n \in HeaderNames : r.headers[n] # q.headers[n]}) = 1
RangeOrders ==
  {<<"x-ms-version", "Accept", "x-ms-date", "Content-Length", "Content-Type">>,
   <<"Content-Type", "x-ms-date", "Content-Length", "x-ms-version", "Accept">>}
MaxSignings == 2

SignIdle ==
  /\ signReq = <<>>
  /\ signOut = <<>>

SignStart ==
  /\ signReq \in {pair \in Requests \X Requests : Near(pair[1], pair[2])}
  /\ signOut = << <<>>, <<>> >>

\* one signing of request i: getAuthorizationHeader (client.go 163-171) and
\* createSharedKeyLite as execTable calls it (client.go 348-356)
SignRequest(i, order) ==
  /\ UNCHANGED besideSign
  /\ Len(signOut) = 2
  /\ Len(signOut[i]) < MaxSignings
  /\ LET r == signReq[i]
         canonicalizedString ==
           buildCanonicalizedString(r.verb, r.headers,
                                    buildCanonicalizedResourceTable(r.path), order)
     IN signOut' = [signOut EXCEPT ![i] = Append(@,
                      [canonicalizedString |-> canonicalizedString,
                       SharedKey |-> createAuthorizationHeader(canonicalizedString),
                       stringToSign |-> stringToSignLite(r.path, r.headers),
                       SharedKeyLite |-> createSharedKeyLite(r.path, r.headers)])]
  /\ UNCHANGED signReq

Host ==
  \/ \E chunk \in CompleteChunks \cup {HalfChunk, RestChunk} : HostAppend(chunk)
  \/ \E suffix \in RotSuffixes, dt \in {0, 1} : Rotate(suffix, dt)

\* no transport failure
Next ==
  \/ Host
  \/ GetState
  \/ Connect(FALSE)
  \/ List(FALSE)
  \/ ReadRotated("none")
  \/ ReadActive("none")
  \/ SaveState
  \/ EndRun

Init == InitRun /\ RecordsIdle /\ AddIdle /\ PlanIdle /\ SubmitIdle /\ ProcIdle /\ HttpIdle /\ ParseIdle /\ HostsIdle /\ SignIdle

Spec == Init /\ [][Next]_vars

\* with a host that may keep its rotated files uncompressed
NextKeep ==
  \/ Next
  \/ \E suffix \in RotSuffixes, dt \in {0, 1} : RotateKeep(suffix, dt)

SpecKeep == Init /\ [][NextKeep]_vars

\* with the failures of the remote file transport
NextFaults ==
  \/ Host
  \/ GetState
  \/ \E fails \in BOOLEAN : Connect(fails)
  \/ \E walkErr \in BOOLEAN : List(walkErr)
  \/ \E failure \in {"none", "open", "seek"} : ReadRotated(failure)
  \/ \E failure \in {"none", "open", "seek"} : ReadActive(failure)
  \/ SaveState
  \/ EndRun

SpecFaults == Init /\ [][NextFaults]_vars

InitRecords == InitRun /\ RecordsStart /\ AddIdle /\ PlanIdle /\ SubmitIdle /\ ProcIdle /\ HttpIdle /\ ParseIdle /\ HostsIdle /\ SignIdle

NextRecords ==
  \/ ScanLine
  \/ ScanEnd
  \/ ParseFails
  \/ Process
  \/ Release
  \/ WaitReturns
  \/ OpenActive

\* the Go scheduler runs every goroutine that can run
SpecRecords == InitRecords /\ [][NextRecords]_vars /\ WF_vars(NextRecords)



InitAdd == InitRun /\ RecordsIdle /\ AddIdle /\ PlanIdle /\ SubmitIdle /\ ProcIdle /\ HttpIdle /\ ParseIdle /\ HostsIdle /\ SignIdle

StepAdd(w) ==
  \/ addUnknownDomain(w)
  \/ ReadMap(w)
  \/ Create(w)
  \/ LoadBytes(w)
  \/ StoreBytes(w)
  \/ LoadCount(w)
  \/ StoreCount(w)

\* AddRecord called from the goroutines of processRecords
NextAdd ==
  \/ \E w \in Workers, record \in Records : AddRecord(w, record)
  \/ \E w \in Workers : StepAdd(w)

SpecAdd == InitAdd /\ [][NextAdd]_vars

\* AddRecord called by one caller at a time
NextSeq ==
  \/ \E w \in Workers, record \in Records : AddRecordAlone(w, record)
  \/ \E w \in Workers : StepAdd(w)

SpecSeq == InitAdd /\ [][NextSeq]_vars

InitPlan == InitRun /\ RecordsIdle /\ AddIdle /\ PlanStart /\ SubmitIdle /\ ProcIdle /\ HttpIdle /\ ParseIdle /\ HostsIdle /\ SignIdle

NextPlan ==
  \/ \E w \in Websites : NextWebsite(w)
  \/ PlanEntity
  \/ PlanEnd

SpecPlan == InitPlan /\ [][NextPlan]_vars

InitSubmit == InitRun /\ RecordsIdle /\ AddIdle /\ PlanIdle /\ SubmitStart /\ ProcIdle /\ HttpIdle /\ ParseIdle /\ HostsIdle /\ SignIdle

NextSubmit ==
  \/ \E t \in Tables : SpawnTable(t)
  \/ \E t \in Tables, w \in SubmitWebsites : SpawnWebsite(t, w)
  \/ \E p \in SubmitPairs : SpawnBatch(p)
  \/ \E p \in SubmitPairs, err \in BOOLEAN : InsertReturn(p, err)
  \/ \E p \in SubmitPairs : ReleaseBatch(p)
  \/ \E p \in SubmitPairs : WebsiteReturn(p)
  \/ \E t \in Tables : TableReturn(t)
  \/ SaveReturn

\* a goroutine that can run does run, and a BatchInsert call returns
SpecSubmit == InitSubmit /\ [][NextSubmit]_vars /\ WF_vars(NextSubmit)

InitProc == InitRun /\ RecordsIdle /\ AddIdle /\ PlanIdle /\ SubmitIdle /\ ProcIdle /\ HttpIdle /\ ParseIdle /\ HostsIdle /\ SignIdle

NextProc ==
  \/ HostWritesLine
  \/ \E err \in BOOLEAN : ProcGetState(err)
  \/ \E err \in BOOLEAN : ProcReadLogs(err)
  \/ \E written \in BOOLEAN : ProcSaveState(written)
  \/ \E clientErr \in BOOLEAN, okSites \in SUBSET Sites : ProcSaveConsumptions(clientErr, okSites)
  \/ ProcReturn

SpecProc == InitProc /\ [][NextProc]_vars

InitHttp ==
  InitRun /\ RecordsIdle /\ AddIdle /\ PlanIdle /\ SubmitIdle /\ ProcIdle /\ HttpStart
    /\ ParseIdle /\ HostsIdle /\ SignIdle

NextHttp == InsertEntity \/ BatchInsert

SpecHttp == InitHttp /\ [][NextHttp]_vars

InitParse ==
  InitRun /\ RecordsIdle /\ AddIdle /\ PlanIdle /\ SubmitIdle /\ ProcIdle /\ HttpIdle
    /\ ParseStart /\ HostsIdle /\ SignIdle

NextParse == ParseLine \/ Aggregate

SpecParse == InitParse /\ [][NextParse]_vars

InitHosts ==
  InitRun /\ RecordsIdle /\ AddIdle /\ PlanIdle /\ SubmitIdle /\ ProcIdle /\ HttpIdle
    /\ ParseIdle /\ HostsStart /\ SignIdle

NextHosts ==
  \/ \E h \in Hosts, err \in BOOLEAN : HostGetState(h, err)
  \/ \E h \in Hosts : MainSpawn(h)
  \/ \E h \in Hosts, outcome \in {"error", "empty", "records", "block", "panic"} :
       HostReadLogs(h, outcome)
  \/ \E h \in Hosts : HostSaveState(h)
  \/ \E h \in Hosts : HostRangeTables(h)
  \/ \E h \in Hosts : HostLoadTables(h)
  \/ \E h \in Hosts : HostStoreTables(h)
  \/ \E h \in Hosts : HostDone(h)
  \/ MainReturn

\* a goroutine that can run does run
SpecHosts == InitHosts /\ [][NextHosts]_vars /\ WF_vars(NextHosts)

InitSign ==
  InitRun /\ RecordsIdle /\ AddIdle /\ PlanIdle /\ SubmitIdle /\ ProcIdle /\ HttpIdle
    /\ ParseIdle /\ HostsIdle /\ SignStart

NextSign == \E i \in {1, 2}, order \in RangeOrders : SignRequest(i, order)

SpecSign == InitSign /\ [][NextSign]_vars

\* ================================================================ properties
RunOver == pc \in {"returned", "crashed", "blocked", "error"}

\* the processRecords calls of the current run: which file, from which offset
Calls == [i \in 1..Len(batches) |-> <<batches[i].which, batches[i].from>>]

IsPrefix(s, t) == Len(s) <= Len(t) /\ SubSeq(t, 1, Len(s)) = s

\* C1: when the host only appends complete lines and rotates at most once
\* between runs, and every run so far succeeded, every line is scanned
\* exactly once: none twice, none archived unscanned, every line of the
\* rotated file and every line of the active log scanned when a run returns.
C1_ExactlyOnce ==
  (pc = "returned" /\ premises) =>
    /\ ~twice
    /\ ~skipped
    /\ \A id \in Candidates : covered[id] = LineStarts(files[id].data)
    /\ covered[ActiveId] = LineStarts(files[ActiveId].data)

\* C2: a run that finds the rotated file the marker names, with the active
\* log longer (L) than the stored offset (N), delivers exactly the records in
\* the bytes [N, L) and returns BytesRead = L.
C2_SameFileDelta ==
  (/\ pc \in {"returned", "crashed", "blocked"}
   /\ listed.id >= 0
   /\ listed.info = readerState.RotatedLog
   /\ batches # <<>>
   /\ batches[Len(batches)].size > readerState.BytesRead)
  => LET b == batches[Len(batches)]
     IN /\ pc = "returned"
        /\ Calls = << <<"active", readerState.BytesRead>> >>
        /\ b.delivered = b.records
        /\ newState.BytesRead = b.size

\* C3: when the file that was the active log at the run before is now the
\* rotated file, the run delivers the records of the rotated file from the
\* stored offset to its end, then all records of the new active log, and the
\* marker it returns holds the rotated file's identity and the bytes consumed
\* from the new active log.
C3_RotationDrain ==
  (RunOver /\ prev.active >= 0 /\ listed.id = prev.active)
  => /\ pc = "returned"
     /\ Calls = << <<"rotated", readerState.BytesRead>>, <<"active", 0>> >>
     /\ batches[1].file = prev.active
     /\ batches[1].delivered = batches[1].records
     /\ batches[2].delivered = batches[2].records
     /\ newState.RotatedLog = listed.info
     /\ newState.BytesRead = batches[2].size

C5_IdentityRule ==
  LET expected == IF listed.info = readerState.RotatedLog
                  THEN << <<"active", readerState.BytesRead>> >>
                  ELSE << <<"rotated", readerState.BytesRead>>, <<"active", 0>> >>
  IN /\ RunOver => IsPrefix(Calls, expected)
     /\ pc = "returned" => Calls = expected

C5_Witness ==
  /\ pc = "returned"
  /\ readerState.RotatedLog.Name = listed.info.Name
  /\ readerState.RotatedLog.ModifiedDate # listed.info.ModifiedDate
  /\ Len(batches) = 2
  /\ batches[1].from > 0
  /\ batches[2].delivered # {}

\* C6: a run that met a failure to connect, to list the directory, or to
\* open or seek a log file does not return successfully (so SaveState is not
\* called and the persisted marker stays).
C6_FailureKeepsMarker == ~(fault # "none" /\ pc = "returned")

\* C7: lines that do not parse neither abort nor block the call: whatever
\* the number of such lines (more than the throttle holds included),
\* processRecords returns, having passed every well-formed line of the file
\* to recordProcessor.
C7_BadLinesDoNotBlock ==
  <>(recPc = "returned" /\ processed = shape.pre + shape.post)

\* C8: concurrent first AddRecord calls for one key lose no first touch:
\* there is never a second ConsumptionRecord for a key that has one, and
\* when the calls have returned the bucket the map holds for a key that was
\* new has the counts and the bytes of all of them.
C8_FirstTouchKept ==
  /\ \A o1 \in Allocated, o2 \in Allocated :
       (heap[o1].WebsiteID = heap[o2].WebsiteID /\ heap[o1].Time = heap[o2].Time) => o1 = o2
  /\ (Quiescent /\ sound) => \A k \in Keys \ old : BucketRight(k)

\* C9: concurrent AddRecord calls for a bucket that was in the map before
\* they started lose no update: when they have returned, each count of the
\* bucket has grown by the number of calls of its class and each byte total
\* by the sum of their sizes.
C9_NoLostUpdate ==
  (Quiescent /\ sound) => \A k \in old : BucketRight(k)

\* C10: AddRecord calls made one after the other commute: the totals per
\* (website, hour) and the unknown-domain counts are those of the multiset of
\* the records, whatever the order of the calls.
C10_Commute == Quiescent => Matches

C10_Witness ==
  /\ Quiescent
  /\ CallsMade = MaxAdds
  /\ \E k \in Keys :
       /\ usages[k] # 0
       /\ heap[usages[k]].FilesCount + heap[usages[k]].DynamicCount
            + heap[usages[k]].OtherCount >= 2
  /\ \E r1 \in Records, r2 \in Records : r1 # r2 /\ added[r1] > 0 /\ added[r2] > 0

\* ---- the aggregation rules, stated on the records themselves
DenyList == {"cdn.redham.ru", "*"}
Ignored(r) == r.HTTPStatusCode = 410 \/ r.Domain \in DenyList
Accepted(r) == ~Ignored(r) /\ domains(r.Domain) # 0
ClassOf(r) ==
  IF r.Path # <<>> /\ r.Path[1] = "/filestore/" THEN "Files"
  ELSE IF r.HTTPStatusCode = 400 THEN "Other"
  ELSE "Dynamic"
HourOf(r) == 3600 * (r.Time \div 3600)
InBucket(k, class) ==
  {r \in Records : Accepted(r) /\ KeyOf(r) = k /\ ClassOf(r) = class}
BucketOf(k) == IF usages[k] = 0 THEN NoRecord ELSE heap[usages[k]]

\* C11: every accepted record adds its size to one class of its bucket and
\* one to that class's count, and nothing to the other classes: files for a
\* path under /filestore/ whatever the status, else other for status 400,
\* else dynamic.  (Whenever no call is running, each class of each bucket is
\* the sum over the records of that class added so far.)
C11_OneClass ==
  Quiescent =>
    \A k \in Keys :
      /\ BucketOf(k).Files = BytesOf(InBucket(k, "Files"))
      /\ BucketOf(k).FilesCount = CallsOf(InBucket(k, "Files"))
      /\ BucketOf(k).Other = BytesOf(InBucket(k, "Other"))
      /\ BucketOf(k).OtherCount = CallsOf(InBucket(k, "Other"))
      /\ BucketOf(k).Dynamic = BytesOf(InBucket(k, "Dynamic"))
      /\ BucketOf(k).DynamicCount = CallsOf(InBucket(k, "Dynamic"))

C11_Witness ==
  /\ Quiescent
  /\ \E r \in Records :
       /\ r.HTTPStatusCode = 400 /\ ClassOf(r) = "Files" /\ added[r] = 1
       /\ BucketOf(KeyOf(r)).Files = r.Size
       /\ BucketOf(KeyOf(r)).Other = 0
  /\ \E r \in Records : ClassOf(r) = "Other" /\ added[r] = 1 /\ BucketOf(KeyOf(r)).Other = r.Size
  /\ \E r \in Records : ClassOf(r) = "Dynamic" /\ added[r] = 1 /\ Accepted(r)

\* C12: a call of AddRecord with a record of status 410, or of a deny-listed
\* domain whatever its status, returns at once and changes no bucket and no
\* unknown-domain count.
C12_IgnoredFrame ==
  [][\A r \in Records :
       (added'[r] = added[r] + 1 /\ Ignored(r))
       => (usages' = usages /\ heap' = heap /\ unknownDomains' = unknownDomains
           /\ worker' = worker)]_vars

C12_Witness ==
  /\ Quiescent
  /\ \E r \in Records : r.HTTPStatusCode = 410 /\ added[r] > 0
  /\ \E r \in Records : r.Domain = "*" /\ added[r] > 0
  /\ \E r \in Records : r.Domain = "cdn.redham.ru" /\ added[r] > 0

\* C13: a call of AddRecord with a record that is not ignored and whose
\* domain is not in the domain map adds exactly one to the unknown count of
\* that domain, and neither creates nor changes a bucket.
C13_UnknownCounted ==
  [][\A w \in Workers :
       /\ \A r \in Records :
            (added'[r] = added[r] + 1 /\ worker'[w] # worker[w]
             /\ ~Ignored(r) /\ domains(r.Domain) = 0)
            => (worker'[w].pc = "unknown" /\ worker'[w].record = r
                /\ usages' = usages /\ heap' = heap /\ unknownDomains' = unknownDomains)
       /\ (worker[w].pc = "unknown" /\ worker'[w] # worker[w])
            => /\ worker'[w] = Idle
               /\ unknownDomains' =
                    [unknownDomains EXCEPT ![worker[w].record.Domain] = @ + 1]
               /\ usages' = usages /\ heap' = heap]_vars

C13_Witness ==
  /\ Quiescent
  /\ unknownDomains["zz.org"] = 2
  /\ \A k \in Keys : usages[k] = 0

\* C14: after calls made one after the other the map holds one bucket per
\* (website, hour): a bucket carries the website and the hour (a whole hour,
\* UTC) of its key, no two keys share a bucket, and its totals are the sums
\* over the accepted records of that website and that hour only.
C14_OneBucketPerHour ==
  /\ \A k \in Keys :
       usages[k] # 0 =>
         /\ BucketOf(k).WebsiteID = k[1]
         /\ BucketOf(k).Time = k[2]
         /\ k[2] % 3600 = 0
         /\ \A k2 \in Keys : usages[k2] = usages[k] => k2 = k
  /\ \A o1 \in Allocated, o2 \in Allocated :
       (heap[o1].WebsiteID = heap[o2].WebsiteID /\ heap[o1].Time = heap[o2].Time) => o1 = o2
  /\ Quiescent =>
       \A o \in Allocated :
         LET mine == {r \in Records : /\ Accepted(r)
                                     /\ domains(r.Domain) = heap[o].WebsiteID
                                     /\ HourOf(r) = heap[o].Time}
         IN /\ heap[o].Files + heap[o].Dynamic + heap[o].Other = BytesOf(mine)
            /\ heap[o].FilesCount + heap[o].DynamicCount + heap[o].OtherCount = CallsOf(mine)

C14_Witness ==
  /\ Quiescent
  /\ Cardinality(Allocated) = 3
  /\ \E o1 \in Allocated, o2 \in Allocated :
       heap[o1].WebsiteID = heap[o2].WebsiteID /\ heap[o1].Time # heap[o2].Time
  /\ \E o1 \in Allocated, o2 \in Allocated :
       heap[o1].WebsiteID # heap[o2].WebsiteID /\ heap[o1].Time = heap[o2].Time

\* ---- the batches planned
EntitiesOf(p) == {i \in 1..Len(consumptions[p[2]]) : usageTable(consumptions[p[2]][i]) = p[1]}
PlannedSoFar(p) ==
  IF p[2] \in todo THEN 0
  ELSE IF p[2] = cur
       THEN Cardinality({i \in EntitiesOf(p) : i <= idx})
       ELSE Cardinality(EntitiesOf(p))
Ceil(n, d) == (n + d - 1) \div d

\* C15: the N entities of one website and one table are planned in
\* ceil(N / 100) batches, none of more than 100 entities.
C15_BatchCount ==
  \A p \in Pairs :
    /\ Len(planned[p]) = Ceil(PlannedSoFar(p), 100)
    /\ \A i \in 1..Len(planned[p]) : Len(planned[p][i]) <= 100

\* C16: a planned batch holds entities of one partition key, the website id
\* in decimal, and of one table; an entity lies under the table named by the
\* template and the year and month (YYYYMM) of its record's hour.
MonthOf(hour) == IF hour < FebruaryStart THEN 197001 ELSE 197002
C16_OnePartitionOneTable ==
  \A p \in Pairs : \A i \in 1..Len(planned[p]) : \A j \in 1..Len(planned[p][i]) :
    LET e == planned[p][i][j]
    IN /\ e.PartitionKey = (IF p[2] = 7 THEN <<7>> ELSE <<1, 2>>)
       /\ p[1] = <<"usage", MonthOf(e.Time)>>
       /\ e.Time \in Range(consumptions[p[2]])

C16_Witness ==
  /\ planPc = "planned"
  /\ \A t \in Tables : planned[<<t, 7>>] # <<>>
  /\ \E t \in Tables : Len(planned[<<t, 12>>]) = 1 /\ Len(planned[<<t, 12>>][1]) = 2
  /\ \E t \in Tables : Len(planned[<<t, 7>>]) >= 2

\* ---- the batches submitted
AllSubmitted == \A p \in SubmitPairs : submitted[p] = toSubmit[p]
SomeFailed == \E p \in SubmitPairs : failed[p] > 0

\* C17: whichever BatchInsert calls fail, SaveConsumptions comes to return,
\* it returns nil, and by then BatchInsert was called for every planned batch:
\* of the partition of a failed batch, of the other partitions, of the other
\* tables.
C17_FailureOnlyLogged ==
  /\ <>(savePc = "returned")
  /\ [](savePc = "returned" => saveErr = "nil" /\ AllSubmitted)

C17_Witness ==
  /\ savePc = "returned"
  /\ AllSubmitted
  /\ \/ failed[<<January, 1>>] = 1 /\ toSubmit[<<January, 1>>] = 2 /\ toSubmit[<<February, 1>>] = 1
     \/ failed[<<January, 1>>] = websiteThrottleCap /\ toSubmit[<<January, 1>>] > websiteThrottleCap

\* ---- processLogs
\* C18: when a run ends, every line the persisted marker tells later runs to
\* pass over has its aggregate in the store.
C18_AtLeastOnce ==
  procPc = "done" => \A l \in 1..markerFile : l \in stored

\* C19: when a run ends, the state file was written in it exactly if ReadLogs
\* succeeded; and a run in which a batch failed has returned nil and has
\* written the state file.
C19_PersistIffRead ==
  procPc = "done" =>
    /\ persisted <=> readOk
    /\ batchFailed => result = "nil" /\ persisted

\* ---- the table client
\* C20: a call returns nil only when the store answered with a 2xx status;
\* when the store answered with a 4xx or 5xx status the call returns an error,
\* and the error carries that status code.
C20_ErrorsSurfaced ==
  called # "none" =>
    /\ returnedErr = NoError => ~answer.transport /\ answer.statusCode \in 200..299
    /\ ~answer.transport /\ answer.statusCode \in 400..599 =>
         returnedErr # NoError /\ returnedErr.statusCode = answer.statusCode

\* ---- parseLine
\* the faults the line was written with
FieldCountOff(m) == m.first = "bare" \/ m.tail # "nine"
BadLine(m) ==
  \/ FieldCountOff(m)
  \/ m.stamp = "iso"
  \/ m.status = "2x0"
  \/ m.size = "dash"
  \/ m.request = "two"

\* C21: for a line that has not exactly nine quoted fields, or whose
\* timestamp is not in the bracketed format, or whose status or size is no
\* integer, or whose request has fewer than three parts, parseLine returns an
\* error and a nil record; and it never returns a record together with an error.
C21_BadLineIsError ==
  parseOut.done =>
    /\ BadLine(made) => parseOut.err /\ parseOut.isNil /\ ~parseOut.panic
    /\ ~(parseOut.err /\ ~parseOut.isNil)

C21_Witness ==
  /\ parseOut.done
  /\ parseOut.err
  /\ made.tail = "ten"
  /\ made.first = "quoted" /\ made.stamp = "+0400" /\ made.duration = "number"
  /\ made.request = "three" /\ made.status = "200" /\ made.size = "32327"

\* the example line as the specification prints it, the address not quoted,
\* and the same line with the address quoted like the other fields
PrintedExample ==
  [first |-> "bare", stamp |-> "+0400", duration |-> "number", request |-> "three",
   status |-> "200", size |-> "32327", tail |-> "nine"]
QuotedExample == [PrintedExample EXCEPT !.first = "quoted"]
ExampleRecord ==
  [Domain |-> "some-domain.com", Time |-> 1469991270, Path |-> <<"/some/file.jpg">>,
   HTTPStatusCode |-> 200, Size |-> 32327]
ExampleBucket ==
  [WebsiteID |-> 3, Time |-> 1469988000, FilesCount |-> 0, Files |-> 0,
   Dynamic |-> 32327, DynamicCount |-> 1, Other |-> 0, OtherCount |-> 0]

\* C22, as stated: the example line with the bare address parses to the
\* record of 2016-07-31T18:54:30Z, status 200, size 32327, some-domain.com.
C22_PrintedExampleParses ==
  made = PrintedExample /\ parseOut.done =>
    ~parseOut.err /\ ~parseOut.isNil /\ parseOut.record = ExampleRecord

\* C22, amended: the example line parses to that record when its address is
\* quoted as well (nine quoted fields), and the record then makes the
\* website's bucket of 2016-07-31T18:00:00Z with the dynamic class alone
\* counted; with the bare address, as printed, parseLine returns an error.
C22_QuotedExampleParses ==
  /\ made = QuotedExample /\ parseOut.done =>
       ~parseOut.err /\ ~parseOut.panic /\ ~parseOut.isNil /\ parseOut.record = ExampleRecord
  /\ made = QuotedExample /\ aggregated.done =>
       aggregated.key = <<3, 1469988000>> /\ aggregated.usageRecord = ExampleBucket
  /\ made = PrintedExample /\ parseOut.done => parseOut.err /\ parseOut.isNil

C22_Witness == made = QuotedExample /\ aggregated.done /\ aggregated.usageRecord.DynamicCount = 1

\* ---- the hosts' goroutines
\* C23: nothing that one host's run has written is read or written by the
\* run of another host.
C23_NothingShared ==
  \A o \in SharedObjects : \A h \in touched[o].writers :
    touched[o].readers \cup touched[o].writers \subseteq {h}

\* ---- the signing of requests
\* the headers that buildCanonicalizedString puts into the string
CanonicalizedSet == {"x-ms-date", "x-ms-version", "Content-Type", "Content-Length"}
Signed == Len(signOut) = 2 /\ Len(signOut[1]) > 0 /\ Len(signOut[2]) > 0
Deterministic ==
  Len(signOut) = 2 =>
    \A i \in {1, 2} : \A a, b \in 1..Len(signOut[i]) : signOut[i][a] = signOut[i][b]
DiffersIn(n) == signReq[1].headers[n] # signReq[2].headers[n]

\* C24, as stated: two signings of one request give the same Authorization
\* value, and a change of any header of the canonicalized set changes the
\* string that is signed for the request.
C24_EveryHeaderSigned ==
  /\ Deterministic
  /\ Signed =>
       \A n \in CanonicalizedSet :
         DiffersIn(n) =>
           /\ signOut[1][1].canonicalizedString # signOut[2][1].canonicalizedString
           /\ signOut[1][1].stringToSign # signOut[2][1].stringToSign

\* C24, amended: two signings of one request give the same Authorization
\* values; a change of a header of the canonicalized set changes the string
\* that buildCanonicalizedString makes, a Content-Length of "0" counting as
\* none; the string signed for a request to the tables (SharedKeyLite) holds
\* the x-ms-date header and the resource alone, and changes exactly when one
\* of them does.
ZeroIsNone(v) == IF v = "0" THEN Absent ELSE v
C24_SignedParts ==
  /\ Deterministic
  /\ Signed =>
       /\ \A n \in CanonicalizedSet \ {"Content-Length"} :
            DiffersIn(n) =>
              signOut[1][1].canonicalizedString # signOut[2][1].canonicalizedString
       /\ ZeroIsNone(signReq[1].headers["Content-Length"])
              # ZeroIsNone(signReq[2].headers["Content-Length"]) =>
            signOut[1][1].canonicalizedString # signOut[2][1].canonicalizedString
       /\ signOut[1][1].stringToSign # signOut[2][1].stringToSign
            <=> DiffersIn("x-ms-date") \/ signReq[1].path # signReq[2].path
       /\ signOut[1][1].SharedKeyLite # signOut[2][1].SharedKeyLite
            <=> DiffersIn("x-ms-date") \/ signReq[1].path # signReq[2].path

C24_Witness ==
  /\ Len(signOut) = 2
  /\ Len(signOut[1]) = 2 /\ Len(signOut[2]) = 2
  /\ DiffersIn("x-ms-version")
  /\ signReq[1].headers["x-ms-version"] # Absent
  /\ signOut[1][1].SharedKey # signOut[2][1].SharedKey
  /\ signOut[1][1].SharedKeyLite = signOut[2][1].SharedKeyLite

\* C25: when the host has no state file, GetState gives the zero marker and no
\* error: processLogs goes on to ReadLogs, which reads the log from its start.
C25_FirstRun ==
  [][ /\ (procPc = "idle" /\ procPc' # "idle" /\ markerFile = NoStateFile) =>
           procPc' = "read" /\ loaded' = 0 /\ result' = "none"
      /\ (procPc = "read" /\ procPc' = "save" /\ markerFile = NoStateFile) =>
           consumed' = 1..logLen /\ fresh' = logLen ]_vars

C25_Witness == markerFile = NoStateFile /\ procPc = "save" /\ consumed = {1, 2}

\* C26: when processRecords returns, no goroutine it started for a line of the
\* file is still parsing, processing or releasing; so when the call for the
\* access log starts scanning, every record of the rotated file was delivered.
C26_AllLinesDone ==
  /\ recPc = "returned" => parsing.good = 0 /\ parsing.bad = 0 /\ releasing = 0
  /\ (shape.call = 2 /\ scanned = 0) =>
       parsing.good = 0 /\ parsing.bad = 0 /\ releasing = 0

C26_Witness ==
  /\ shape.call = 2
  /\ recPc = "returned"
  /\ processed = 1
  /\ shape.bad = 1

\* C27: at every moment of SaveConsumptions at most 3 websites (partitions) of
\* a table are being processed, at most 6 BatchInsert calls of a website are in
\* flight, and the calls in flight number at most tables x 3 x 6.
RECURSIVE InFlight(_)
InFlight(pairs) ==
  IF pairs = {} THEN 0
  ELSE LET p == CHOOSE q \in pairs : TRUE
       IN inserting[p] + InFlight(pairs \ {p})
BeingProcessed(t) == {w \in SubmitWebsites : websitePc[<<t, w>>] = "loop"}

C27_InFlightBounded ==
  /\ \A t \in Tables : Cardinality(BeingProcessed(t)) <= tableThrottleCap
  /\ \A p \in SubmitPairs : inserting[p] <= websiteThrottleCap
  /\ InFlight(SubmitPairs) <= Cardinality(Tables) * tableThrottleCap * websiteThrottleCap

\* six calls of a website in flight while a seventh batch waits for a slot
C27_Witness ==
  \E p \in SubmitPairs : inserting[p] = websiteThrottleCap /\ batchesLeft[p] > 0

\* C28: each tier joins its children: a website's goroutine is over only when
\* none of its BatchInsert calls is running and its throttle is empty, a
\* table's goroutine only when none of its websites is being processed, and
\* SaveConsumptions returns only when every tier is over with no slot held;
\* and, every BatchInsert call returning, SaveConsumptions does return.
WebsiteJoined(p) ==
  inserting[p] = 0 /\ logging[p] = 0 /\ batchWg[p] = 0 /\ websiteThrottle[p] = 0
TableJoined(t) ==
  /\ \A w \in SubmitWebsites : websitePc[<<t, w>>] # "loop" /\ WebsiteJoined(<<t, w>>)
  /\ websitesWg[t] = 0
  /\ tableThrottle[t] = 0

C28_TiersJoin ==
  /\ [](\A p \in SubmitPairs : websitePc[p] = "done" => WebsiteJoined(p))
  /\ [](\A t \in Tables : tablePc[t] = "done" => TableJoined(t))
  /\ [](savePc = "returned" =>
          /\ \A t \in Tables : tablePc[t] # "loop" /\ TableJoined(t)
          /\ \A p \in SubmitPairs : submitted[p] = toSubmit[p])
  /\ <>(savePc = "returned")

\* a table of more websites than its throttle holds, all of them uploaded
C28_Witness ==
  /\ savePc = "returned"
  /\ \A w \in SubmitWebsites : toSubmit[<<January, w>>] = 1 /\ submitted[<<January, w>>] = 1
  /\ failed[<<January, 2>>] = 1

\* C29: a run that found the rotated file of its marker returns a marker whose
\* BytesRead is at least the stored one; and a run reads the access log from
\* offset 0, below a stored offset, only when it found another rotated file.
C29_NeverRewound ==
  pc = "returned" =>
    /\ isSame(previouslyRotated, readerState.RotatedLog) =>
         newState.BytesRead >= readerState.BytesRead
    /\ (logOffset = 0 /\ readerState.BytesRead > 0) =>
         ~isSame(previouslyRotated, readerState.RotatedLog)

C29_Witness ==
  /\ pc = "returned"
  /\ isSame(previouslyRotated, readerState.RotatedLog)
  /\ readerState.RotatedLog # ZeroFileInfo
  /\ readerState.BytesRead > 0
  /\ newState.BytesRead > readerState.BytesRead

\* C30: when the directory holds several non-compressed files whose names
\* extend the name of the access log, the file the walk of ReadLogs returns
\* is the one rotated last.
SeveralRotated == Cardinality(Candidates) >= 2
C30_LatestRotated ==
  (pc \in {"rotated", "active"} /\ listed.stamp = nextId + writes /\ SeveralRotated)
    => \A id \in Candidates : id <= listed.id

\* C31: the entities planned for one table and one partition key in a call of
\* SaveConsumptions have row keys that differ from one another, the records of
\* a website being of different hours; and a row key of this call is not the
\* row key of any entity of the website planned by a call for another host or
\* by a call started in another second.
RowKeys(p) ==
  UNION {{planned[p][i][j].RowKey : j \in 1..Len(planned[p][i])} : i \in 1..Len(planned[p])}
HoursOf(w) == {consumptions[w][k] : k \in 1..Len(consumptions[w])}
RowKeysOfCall(w, s) == {generateRowKey(hour, s[1], s[2]) : hour \in HoursOf(w)}

C31_RowKeysDiffer ==
  \A p \in Pairs :
    /\ Cardinality(RowKeys(p)) = PlannedSoFar(p)
    /\ planPc = "planned" =>
         \A s \in Savers \ {<<serverName, saveNow>>} :
           RowKeys(p) \cap RowKeysOfCall(p[2], s) = {}

C31_Witness ==
  /\ planPc = "planned"
  /\ serverName = ServerName(<<"web", "-", "1">>, 2)
  /\ \E t \in Tables : PlannedSoFar(<<t, 7>>) > maxBatchSize
  /\ \E t \in Tables : PlannedSoFar(<<t, 12>>) = 2

\* C36: the records of a website passed to SaveConsumptions so far are, table
\* by table, the entities of the planned batches, each record in one place of
\* one batch; and no planned batch is empty.
Places(p) ==
  UNION {{<<i, j>> : j \in 1..Len(planned[p][i])} : i \in 1..Len(planned[p])}
PlannedHours(p) == {planned[p][pl[1]][pl[2]].Time : pl \in Places(p)}
PassedHours(p) ==
  {consumptions[p[2]][k] : k \in {i \in EntitiesOf(p) : p[2] \notin todo /\ (p[2] = cur => i <= idx)}}

C36_EachRecordOnce ==
  \A p \in Pairs :
    /\ PlannedHours(p) = PassedHours(p)
    /\ Cardinality(Places(p)) = Cardinality(PassedHours(p))
    /\ \A i \in 1..Len(planned[p]) : Len(planned[p][i]) > 0

C36_Witness ==
  /\ planPc = "planned"
  /\ serverName = ServerName(<<"web">>, 22)
  /\ \E t \in Tables :
       /\ Len(planned[<<t, 7>>]) = 2
       /\ Len(planned[<<t, 7>>][2]) = 1
  /\ \E t \in Tables : Len(planned[<<t, 12>>]) = 1 /\ Len(planned[<<t, 12>>][1]) = 2

\* C32: after a run during which the log was rotated, between the run's walk
\* of the directory and its reading of the access log, and the run that
\* follows it, every line of the file that was the access log and every line
\* of the new access log has been scanned by some run.
C32_RotationInRun ==
  (race = "saved" /\ pc = "returned") =>
    /\ \A id \in Candidates : covered[id] = LineStarts(files[id].data)
    /\ covered[ActiveId] = LineStarts(files[ActiveId].data)

\* C33: the BytesRead of the marker ReadLogs returns is at most the length
\* the access log had when the run read it, a last line without separator
\* included.
C33_OffsetWithinFile ==
  pc = "returned" => newState.BytesRead <= batches[Len(batches)].size

\* C34: parseLine is total: for every line it returns a record or an error
\* and does not panic, a line of nine well-formed quoted fields whose first
\* field holds no "(" included.
C34_ParseLineTotal ==
  parseOut.done =>
    /\ ~parseOut.panic
    /\ parseOut.err # ~parseOut.isNil

\* C35: no state file is read or written by the runs of two hosts, hosts that
\* differ in the address alone included.
Users(f) == touched[f].readers \cup touched[f].writers
C35_OwnStateFile ==
  \A f \in StateFileNames : \A g, h \in Users(f) : g = h

\* C37: main starts the run of every server before it waits, and returns
\* only when the run of every server is over; and when no run blocks or takes
\* the process down (which is not an error processLogs returns), main does
\* return, whichever runs ended with an error.
Finished(h) == hostPc[h] \in {"done", "done with error"}
C37_MainWaitsForAll ==
  /\ [](hostPc[Main] \in {"wait", "returned"} => \A h \in Hosts : hostPc[h] # "new")
  /\ [](hostPc[Main] = "returned" => \A h \in Hosts : Finished(h))
  /\ <>(\/ hostPc[Main] = "returned"
        \/ \E h \in Hosts : hostPc[h] \in {"blocked", "crashed"})

\* a run that ended with an error, another that went through, main returned
C37_Witness ==
  /\ hostPc[Main] = "returned"
  /\ hostPc[1] = "done with error"
  /\ hostPc[2] = "done"
  /\ touched[TablesVar].writers = {2}

====
